---- MODULE Spec2Model ----
(***************************************************************************)
(* GitLab project-identity resolution and merge-request orchestration of   *)
(* the code-review MCP server (src/src/index.ts, src/src/api-client.ts).   *)
(*                                                                         *)
(* Strings are modelled as tuples of one-character strings, so that        *)
(* trimming, percent-encoding and decoding are computed character by       *)
(* character as the JavaScript runtime computes them.                      *)
(***************************************************************************)
EXTENDS Integers, Sequences, FiniteSets, TLC

(***************************************************************************)
(* Optional values.  `undefined` of a string-typed slot is the one-element *)
(* tuple Undef, which no character string equals (characters have length   *)
(* one); `null` results of normalisation are Null.  An absent HTTP status  *)
(* is NoStatus (falsy, like undefined, in the code's `status &&` tests).   *)
(***************************************************************************)
Undef == <<"undefined">>
Null == <<"null">>
NoStatus == 0

\* The outcome of decodeURIComponent on a malformed escape sequence.
URIError == <<"URIError">>

(***************************************************************************)
(* Characters                                                              *)
(***************************************************************************)
HexDigits == <<"0", "1", "2", "3", "4", "5", "6", "7", "8", "9",
               "A", "B", "C", "D", "E", "F">>

LowerHex == <<"0", "1", "2", "3", "4", "5", "6", "7", "8", "9",
              "a", "b", "c", "d", "e", "f">>

\* Printable ASCII, code points 0x20 .. 0x7E, in order (the double quote,
\* the backslash and the backtick are held by placeholders that no character equals).
Ascii == <<" ", "!", "QUOT", "#", "$", "%", "&", "'", "(", ")", "*", "+", ",",
           "-", ".", "/", "0", "1", "2", "3", "4", "5", "6", "7", "8", "9",
           ":", ";", "<", "=", ">", "?", "@", "A", "B", "C", "D", "E", "F",
           "G", "H", "I", "J", "K", "L", "M", "N", "O", "P", "Q", "R", "S",
           "T", "U", "V", "W", "X", "Y", "Z", "[", "BACKSLASH", "]", "^", "_",
           "BACKTICK",
           "a", "b", "c", "d", "e", "f", "g", "h", "i", "j", "k", "l", "m",
           "n", "o", "p", "q", "r", "s", "t", "u", "v", "w", "x", "y", "z",
           "{", "|", "}", "~">>

IndexIn(c, table) ==
    IF \E i \in DOMAIN table : table[i] = c
    THEN CHOOSE i \in DOMAIN table : table[i] = c
    ELSE 0

\* Code point of every character of the alphabet.
CodePoints == [c \in {Ascii[i] : i \in DOMAIN Ascii} |-> IndexIn(c, Ascii) + 31]

CodePoint(c) == IF c \in DOMAIN CodePoints THEN CodePoints[c] ELSE 0

IsDigit(c) == CodePoint(c) >= 48 /\ CodePoint(c) <= 57
IsUpper(c) == CodePoint(c) >= 65 /\ CodePoint(c) <= 90
IsLower(c) == CodePoint(c) >= 97 /\ CodePoint(c) <= 122
IsSpace(c) == c = " "

\* String.prototype.toLowerCase on one ASCII character.
LowerChar(c) == IF IsUpper(c) THEN Ascii[CodePoint(c) + 32 - 31] ELSE c

toLowerCase(s) == [i \in DOMAIN s |-> LowerChar(s[i])]

\* Value of every hexadecimal digit, upper or lower case.
HexVals ==
    [c \in {HexDigits[i] : i \in DOMAIN HexDigits}
            \cup {LowerHex[i] : i \in DOMAIN LowerHex} |->
        IF IndexIn(c, HexDigits) > 0 THEN IndexIn(c, HexDigits) - 1
        ELSE IndexIn(c, LowerHex) - 1]

\* Value of a hexadecimal digit, or -1.
HexVal(c) == IF c \in DOMAIN HexVals THEN HexVals[c] ELSE -1

(***************************************************************************)
(* String helpers of the JavaScript runtime                                *)
(***************************************************************************)
RECURSIVE TrimLeft(_)
TrimLeft(s) ==
    IF s # <<>> /\ IsSpace(Head(s)) THEN TrimLeft(Tail(s)) ELSE s

RECURSIVE TrimRight(_)
TrimRight(s) ==
    IF s # <<>> /\ IsSpace(s[Len(s)])
    THEN TrimRight(SubSeq(s, 1, Len(s) - 1))
    ELSE s

\* String.prototype.trim
Trim(s) == TrimRight(TrimLeft(s))

Includes(s, c) == \E i \in DOMAIN s : s[i] = c

\* encodeURIComponent leaves A-Z a-z 0-9 - _ . ! ~ * ' ( ) alone.
IsUnreserved(c) ==
    \/ IsDigit(c) \/ IsUpper(c) \/ IsLower(c)
    \/ c \in {"-", "_", ".", "!", "~", "*", "'", "(", ")"}

EncodeChar(c) ==
    IF IsUnreserved(c) THEN <<c>>
    ELSE <<"%", HexDigits[(CodePoint(c) \div 16) + 1],
                HexDigits[(CodePoint(c) % 16) + 1]>>

\* Variant: nothing is escaped.
encodeURIComponent_Identity(s) == s

RECURSIVE encodeURIComponent(_)
encodeURIComponent(s) ==
    IF s = <<>> THEN <<>>
    ELSE EncodeChar(Head(s)) \o encodeURIComponent(Tail(s))

\* decodeURIComponent: every '%' must start a two-digit hexadecimal escape
\* of a decodable byte, otherwise a URIError is thrown.  Escapes of bytes
\* outside printable ASCII are not part of the modelled alphabet and are
\* reported as malformed (a lone byte >= 0x80 is malformed UTF-8).
RECURSIVE decodeURIComponent(_)
decodeURIComponent(s) ==
    IF s = <<>> THEN <<>>
    ELSE IF Head(s) # "%"
    THEN LET rest == decodeURIComponent(Tail(s))
         IN  IF rest = URIError THEN URIError ELSE <<Head(s)>> \o rest
    ELSE IF Len(s) < 3 \/ HexVal(s[2]) < 0 \/ HexVal(s[3]) < 0
    THEN URIError
    ELSE LET code == HexVal(s[2]) * 16 + HexVal(s[3])
             rest == decodeURIComponent(SubSeq(s, 4, Len(s)))
         IN  IF code < 32 \/ code > 126 \/ rest = URIError
             THEN URIError
             ELSE <<Ascii[code - 31]>> \o rest

\* s.split('/').filter(Boolean): the non-empty segments of s, in order.
RECURSIVE SplitAcc(_, _, _)
SplitAcc(s, cur, acc) ==
    IF s = <<>>
    THEN IF cur = <<>> THEN acc ELSE Append(acc, cur)
    ELSE IF Head(s) = "/"
    THEN SplitAcc(Tail(s), <<>>, IF cur = <<>> THEN acc ELSE Append(acc, cur))
    ELSE SplitAcc(Tail(s), Append(cur, Head(s)), acc)

Segments(s) == SplitAcc(s, <<>>, <<>>)

\* s.split('/') keeping empty parts.
RECURSIVE SplitAllAcc(_, _, _)
SplitAllAcc(s, cur, acc) ==
    IF s = <<>> THEN Append(acc, cur)
    ELSE IF Head(s) = "/"
    THEN SplitAllAcc(Tail(s), <<>>, Append(acc, cur))
    ELSE SplitAllAcc(Tail(s), Append(cur, Head(s)), acc)

SplitSlash(s) == SplitAllAcc(s, <<>>, <<>>)

IsBlank(s) == \A i \in DOMAIN s : IsSpace(s[i])

(***************************************************************************)
(* normalizeProjectId                                                      *)
(***************************************************************************)
\* [a-zA-Z0-9_.一-鿿-]: the CJK range lies outside the alphabet.
IsPathChar(c) ==
    IsDigit(c) \/ IsUpper(c) \/ IsLower(c) \/ c \in {"_", ".", "-"}

\* ^seg/seg(/seg)*$ with seg = [pathchar]+
MatchesProjectPath(s) ==
    LET parts == SplitSlash(s)
    IN  /\ Len(parts) >= 2
        /\ \A i \in DOMAIN parts :
              /\ parts[i] # <<>>
              /\ \A j \in DOMAIN parts[i] : IsPathChar(parts[i][j])

\* Variant: an identifier is never taken to be encoded already.
LooksEncoded_Never(trimmedId) == FALSE

\* normalizeProjectId: trimmedId.includes('%')
LooksEncoded(trimmedId) == Includes(trimmedId, "%")

normalizeProjectId(projectId) ==
    IF projectId = <<>> \/ projectId = Undef THEN Null
    ELSE LET trimmedId == Trim(projectId)
         IN  IF trimmedId # <<>> /\ \A i \in DOMAIN trimmedId : IsDigit(trimmedId[i])
             THEN trimmedId
             ELSE IF LooksEncoded(trimmedId) THEN trimmedId
             ELSE IF MatchesProjectPath(trimmedId)
             THEN encodeURIComponent(trimmedId)
             ELSE IF /\ Includes(trimmedId, "/")
                     /\ \A i \in DOMAIN SplitSlash(trimmedId) :
                           /\ SplitSlash(trimmedId)[i] # <<>>
                           /\ ~IsBlank(SplitSlash(trimmedId)[i])
             THEN encodeURIComponent(trimmedId)
             ELSE IF trimmedId # <<>> /\ ~IsBlank(trimmedId)
             THEN encodeURIComponent(trimmedId)
             ELSE Null

(***************************************************************************)
(* HTTP layer: what a request made through makeApiRequest hands back       *)
(***************************************************************************)
\* What the wire can answer to one HTTP request: a 2xx response, an error
\* status, or no response at all (network error, timeout).
ErrorStatuses == {401, 403, 404, 500}

AxiosFailures ==
    [kind : {"http"}, status : ErrorStatuses]
        \cup {[kind |-> "net", status |-> NoStatus]}

\* An absent x-ratelimit-reset header, and an error without a code.
NoHeader == <<>>
NoCode == ""

\* Fields an answer carries only where the rate limit or the error code
\* matters: the x-ratelimit-reset header as <<seconds from now>>, and the
\* code of an error that is not an AxiosError.
ResetHeader(out) == IF "reset" \in DOMAIN out THEN out.reset ELSE NoHeader
ErrorCode(out) == IF "code" \in DOMAIN out THEN out.code ELSE NoCode

\* The AxiosError axios rejects with: isAxiosError is set and the HTTP
\* status and headers, if any, sit under error.response.
AxiosError(out) ==
    [isAxiosError |-> TRUE, responseStatus |-> out.status,
     resetHeader |-> ResetHeader(out), status |-> NoStatus, code |-> NoCode]

\* An error thrown by axios(config) that is not an AxiosError: it has no
\* response and may carry a system error code.
PlainError(out) ==
    [isAxiosError |-> FALSE, responseStatus |-> NoStatus,
     resetHeader |-> NoHeader, status |-> NoStatus, code |-> ErrorCode(out)]

\* ApiClient.handleApiError: a fresh Error carrying status as an own
\* property; it has neither isAxiosError nor response nor code.
handleApiError(error) ==
    [isAxiosError |-> FALSE, responseStatus |-> NoStatus,
     resetHeader |-> NoHeader, status |-> error.responseStatus,
     code |-> NoCode]

\* CodeReviewMCPServer.isAxiosError and ApiClient.isAxiosError
isAxiosError(error) == error.isAxiosError = TRUE

\* ApiClient.request, the operation handed to executeWithRetry, for one
\* answered axios(config): an AxiosError is replaced by handleApiError
\* before it leaves the operation, any other error is rethrown as it is.
request(out) ==
    IF out.kind = "ok"
    THEN [ok |-> TRUE, status |-> out.status, data |-> out.data,
          error |-> PlainError(out)]
    ELSE LET error == IF out.kind = "raw" THEN PlainError(out)
                      ELSE AxiosError(out)
         IN  [ok |-> FALSE, status |-> NoStatus, data |-> <<>>,
              error |-> IF isAxiosError(error) THEN handleApiError(error)
                        ELSE error]

\* makeApiRequest awaits apiClient.request; for an error that is an
\* AxiosError the request is a single attempt (shouldRetry refuses what
\* handleApiError built), which is all the answers below contain.
makeApiRequest(out) == request(out)

(***************************************************************************)
(* Candidates                                                              *)
(***************************************************************************)
NoCandidate ==
    [rawProjectId |-> Null, normalizedProjectId |-> Null, source |-> "none"]

Candidate(raw, normalized, source) ==
    [rawProjectId |-> raw, normalizedProjectId |-> normalized,
     source |-> source]

\* Hosts as returned by new URL(...).host; NoHost is getApiHost's null and
\* BadHost a remote URL that new URL rejects.
NoHost == "null"
BadHost == "TypeError"

\* getApiHost is read from the configuration variable apiHost below.

\* Variant: the comparison of the remote host with the API host is missing.
getProjectCandidateFromGit_NoHostCheck(info, host) ==
    IF info.kind = "throws" THEN NoCandidate
    ELSE IF ~info.isGitlabProject \/ info.projectId = <<>> THEN NoCandidate
    ELSE [rawProjectId |-> info.projectPath,
          normalizedProjectId |-> info.projectId, source |-> "git_remote"]

\* getProjectCandidateFromGit, given what executeGitCommand('get_project_info')
\* returned (or that it threw) and the API host.
getProjectCandidateFromGit(info, host) ==
    IF info.kind = "throws" THEN NoCandidate
    ELSE IF ~info.isGitlabProject \/ info.projectId = <<>> THEN NoCandidate
    ELSE IF /\ host # NoHost
            /\ info.remoteHost # BadHost
            /\ info.remoteHost # host
    THEN NoCandidate
    ELSE Candidate(info.projectPath, info.projectId, "git_remote")

\* getProjectCandidateFromSearch, part before the request: the search term,
\* Null when no request is made, URIError when decodeURIComponent throws.
SearchTerm(projectIdentifier) ==
    IF projectIdentifier = Undef \/ projectIdentifier = <<>> THEN Null
    ELSE LET trimmed == Trim(projectIdentifier)
         IN  IF trimmed = <<>> THEN Null
             ELSE LET decodedIdentifier == decodeURIComponent(trimmed)
                  IN  IF decodedIdentifier = URIError THEN URIError
                      ELSE LET segments == Segments(decodedIdentifier)
                           IN  IF segments = <<>> THEN Null
                               ELSE segments[Len(segments)]

\* Array.prototype.find over the outcomes of its predicate: the index of
\* the first element the predicate holds of, or 0.
FindIndex(hits) ==
    IF \E i \in DOMAIN hits : hits[i]
    THEN CHOOSE i \in DOMAIN hits :
            hits[i] /\ \A j \in 1..(i - 1) : ~hits[j]
    ELSE 0

\* Variant: the first project of the answer is taken, whatever matches.
getProjectCandidateFromSearch_FirstResult(projectIdentifier, res) ==
    IF ~res.ok THEN NoCandidate
    ELSE LET projects == res.data
         IN  IF projects = <<>> THEN NoCandidate
             ELSE IF projects[1].path_with_namespace = Undef
             THEN NoCandidate
             ELSE Candidate(projects[1].path_with_namespace,
                            encodeURIComponent(
                                projects[1].path_with_namespace),
                            "search")

\* Variant: a failed search still yields a candidate of the search tier,
\* a guess put in place of the answer that never came.
getProjectCandidateFromSearch_FailureGuesses(projectIdentifier, res) ==
    IF res.ok THEN NoCandidate
    ELSE Candidate(projectIdentifier, <<"g", "u", "e", "s", "s">>, "search")

\* getProjectCandidateFromSearch, part after the request.
getProjectCandidateFromSearch(projectIdentifier, res) ==
    IF ~res.ok THEN NoCandidate
    ELSE LET projects == res.data
             decodedIdentifier == decodeURIComponent(Trim(projectIdentifier))
             searchTerm == SearchTerm(projectIdentifier)
             providedLower == toLowerCase(decodedIdentifier)
             searchLower == toLowerCase(searchTerm)
             IsExact(p) == /\ p.path_with_namespace # Undef
                           /\ toLowerCase(p.path_with_namespace) = providedLower
             IsPath(p) == p.path # Undef /\ toLowerCase(p.path) = searchLower
             IsName(p) == p.name # Undef /\ toLowerCase(p.name) = searchLower
             exactMatch ==
                 FindIndex([i \in DOMAIN projects |-> IsExact(projects[i])])
             pathMatch ==
                 FindIndex([i \in DOMAIN projects |-> IsPath(projects[i])])
             nameMatch ==
                 FindIndex([i \in DOMAIN projects |-> IsName(projects[i])])
             chosen == IF exactMatch # 0 THEN exactMatch
                       ELSE IF pathMatch # 0 THEN pathMatch
                       ELSE IF nameMatch # 0 THEN nameMatch
                       ELSE 1
         IN  IF projects = <<>> THEN NoCandidate
             ELSE IF projects[chosen].path_with_namespace = Undef
             THEN NoCandidate
             ELSE Candidate(projects[chosen].path_with_namespace,
                            encodeURIComponent(
                                projects[chosen].path_with_namespace),
                            "search")

\* Variant: the record of a failed verification names the identifier as
\* the caller wrote it instead of the candidate that was sent.
verifyProjectCandidate_RecordsRawId(candidate, res) ==
    IF res.ok
    THEN [attempt |-> [candidate |-> candidate, success |-> TRUE,
                       status |-> res.status],
          verified |-> TRUE, status |-> res.status, throws |-> FALSE,
          projectData |-> res.data]
    ELSE LET status == IF isAxiosError(res.error)
                       THEN res.error.responseStatus
                       ELSE NoStatus
         IN  [attempt |->
                  [candidate |->
                       [candidate EXCEPT
                            !.normalizedProjectId = candidate.rawProjectId],
                   success |-> FALSE, status |-> status],
              verified |-> FALSE, status |-> status,
              throws |-> (status # NoStatus /\ status # 404),
              projectData |-> <<>>]

\* Variant: a 2xx answer is recorded but not reported as verified.
verifyProjectCandidate_NotReported(candidate, res) ==
    IF res.ok
    THEN [attempt |-> [candidate |-> candidate, success |-> TRUE,
                       status |-> res.status],
          verified |-> FALSE, status |-> res.status, throws |-> FALSE,
          projectData |-> res.data]
    ELSE LET status == IF isAxiosError(res.error)
                       THEN res.error.responseStatus
                       ELSE NoStatus
         IN  [attempt |-> [candidate |-> candidate, success |-> FALSE,
                           status |-> status],
              verified |-> FALSE, status |-> status,
              throws |-> (status # NoStatus /\ status # 404),
              projectData |-> <<>>]

\* verifyProjectCandidate, after the request was answered: the attempt
\* record pushed, the value returned, and whether the error is rethrown.
verifyProjectCandidate(candidate, res) ==
    IF res.ok
    THEN [attempt |-> [candidate |-> candidate, success |-> TRUE,
                       status |-> res.status],
          verified |-> TRUE, status |-> res.status, throws |-> FALSE,
          projectData |-> res.data]
    ELSE LET status == IF isAxiosError(res.error)
                       THEN res.error.responseStatus
                       ELSE NoStatus
         IN  [attempt |-> [candidate |-> candidate, success |-> FALSE,
                           status |-> status],
              verified |-> FALSE, status |-> status,
              throws |-> (status # NoStatus /\ status # 404),
              projectData |-> <<>>]

\* enqueueCandidate: the queue and the seen-set after offering a candidate.
enqueueCandidate(qs, candidate) ==
    IF \/ candidate = NoCandidate
       \/ candidate.normalizedProjectId = <<>>
       \/ candidate.normalizedProjectId \in qs.seen
    THEN qs
    ELSE [queue |-> Append(qs.queue, candidate),
          seen |-> qs.seen \cup {candidate.normalizedProjectId}]

\* fallbackCandidates.forEach(enqueueCandidate)
RECURSIVE EnqueueAll(_, _)
EnqueueAll(qs, candidates) ==
    IF candidates = <<>> THEN qs
    ELSE EnqueueAll(enqueueCandidate(qs, Head(candidates)), Tail(candidates))

(***************************************************************************)
(* Bounds and input sets                                                   *)
(***************************************************************************)
\* Longest project list a search response carries in the model.
MaxResults == 2

Str_gp == <<"g", "/", "p">>
Str_gq == <<"g", "/", "q">>

\* rawProjectIdInput after coerceToString: absent, empty, blank, numeric,
\* two paths, a pre-encoded path and a string with a malformed escape.
ProjectIdInputs ==
    {Undef, <<>>, <<" ">>, <<"7">>, Str_gp, Str_gq,
     <<"g", "%", "2", "F", "p">>, <<"5", "%">>}

MergeRequestIidInputs == {Undef, <<"4">>}

SourceBranchInputs == {Undef, <<>>, <<" ">>, <<"f", "/", "x">>}

Tools == {"get_merge_request", "create_merge_request"}

ApiHosts == {"gitlab.com", NoHost}

RemoteHosts == {"gitlab.com", "git.corp", BadHost}

\* What executeGitCommand('get_project_info', ...) yields: it throws, or the
\* directory has no GitLab remote, or parseGitlabRemoteUrl found a path.
GitInfos ==
    {[kind |-> "throws", isGitlabProject |-> FALSE, projectId |-> <<>>,
      projectPath |-> <<>>, remoteHost |-> BadHost],
     [kind |-> "info", isGitlabProject |-> FALSE, projectId |-> <<>>,
      projectPath |-> <<>>, remoteHost |-> BadHost]}
    \cup
    {[kind |-> "info", isGitlabProject |-> TRUE,
      projectId |-> encodeURIComponent(path), projectPath |-> path,
      remoteHost |-> h] : path \in {Str_gp, Str_gq}, h \in RemoteHosts}

\* Projects the search endpoint may list.
Projects ==
    {[path_with_namespace |-> Str_gp, path |-> <<"p">>, name |-> <<"P">>],
     [path_with_namespace |-> Str_gq, path |-> <<"q">>, name |-> <<"p">>],
     [path_with_namespace |-> Undef, path |-> <<"p">>, name |-> <<"p">>]}

ProjectLists == UNION {[1..n -> Projects] : n \in 0..MaxResults}

\* Answers of the wire to GET projects/{id}, GET projects?search= and to the
\* merge-request endpoints.
VerifyOutcomes(id) ==
    {[kind |-> "ok", status |-> 200, data |-> id]} \cup
    {[kind |-> f.kind, status |-> f.status, data |-> <<>>] : f \in AxiosFailures}

SearchOutcomes ==
    {[kind |-> "ok", status |-> 200, data |-> l] : l \in ProjectLists} \cup
    {[kind |-> f.kind, status |-> f.status, data |-> <<>>] : f \in AxiosFailures}

MrOutcomes ==
    {[kind |-> "ok", status |-> 200, data |-> <<"m", "r">>]} \cup
    {[kind |-> f.kind, status |-> f.status, data |-> <<>>] : f \in AxiosFailures}
    \cup {[kind |-> "http", status |-> st, data |-> <<>>] : st \in {400, 409}}

Pending == [kind |-> "pending", status |-> NoStatus, data |-> <<>>]

(***************************************************************************)
(* executeGitCommand and the process working directory                     *)
(***************************************************************************)
\* Directories that exist, and a path that does not.
ExistingDirs == {"/srv/mcp", "/work/repo", "/tmp"}
MissingDir == "/gone"
WorkingDirectories == ExistingDirs \cup {MissingDir}

\* The directory the server process is started in.
StartDir == "/srv/mcp"

GitCommands == {"get_current_branch", "get_project_info", "get_status"}

\* process.chdir(directory) from current: the working directory afterwards
\* and whether ENOENT was thrown.
chdir(directory, current) ==
    IF directory \in ExistingDirs
    THEN [cwd |-> directory, threw |-> FALSE]
    ELSE [cwd |-> current, threw |-> TRUE]

\* Variant: the finally block does not change the directory back.
RestoreCwd_Skipped(originalCwd, current) == current

\* executeGitCommand, the finally block: process.chdir(originalCwd).
RestoreCwd(originalCwd, current) == chdir(originalCwd, current).cwd

\* executeGitCommand(command, workingDirectory, ...) called while the
\* process is in originalCwd; gitFails tells whether getBranchInfo /
\* getGitProjectInfo throws.  Yields the working directory left behind and
\* whether the call threw.
executeGitCommand(command, workingDirectory, originalCwd, gitFails) ==
    LET entered == chdir(workingDirectory, originalCwd)
        threw == \/ entered.threw
                 \/ command \notin {"get_current_branch", "get_project_info"}
                 \/ gitFails
    IN  [cwd |-> RestoreCwd(originalCwd, entered.cwd),
         entered |-> entered.cwd,
         threw |-> threw]

\* The record of one invocation in gitCalls.
GitCall(command, workingDirectory, originalCwd, gitFails) ==
    LET done == executeGitCommand(command, workingDirectory, originalCwd,
                                  gitFails)
    IN  [command |-> command, workingDirectory |-> workingDirectory,
         originalCwd |-> originalCwd, entered |-> done.entered,
         threw |-> done.threw, left |-> done.cwd]

(***************************************************************************)
(* generateMRTitle                                                         *)
(***************************************************************************)
Str_feature == <<"f", "e", "a", "t", "u", "r", "e", "/">>
Str_feat == <<"f", "e", "a", "t", "/">>
Str_bugfix == <<"b", "u", "g", "f", "i", "x", "/">>
Str_hotfix == <<"h", "o", "t", "f", "i", "x", "/">>
Str_docs == <<"d", "o", "c", "s", "/">>
Str_refactor == <<"r", "e", "f", "a", "c", "t", "o", "r", "/">>

Title_feat == <<"f", "e", "a", "t", ":", " ">>
Title_fix == <<"f", "i", "x", ":", " ">>
Title_docs == <<"d", "o", "c", "s", ":", " ">>
Title_refactor == <<"r", "e", "f", "a", "c", "t", "o", "r", ":", " ">>

\* String.prototype.startsWith
StartsWith(str, prefix) ==
    /\ Len(str) >= Len(prefix)
    /\ SubSeq(str, 1, Len(prefix)) = prefix

\* title.replace(prefix, '') for a title that starts with prefix.
StripPrefix(str, prefix) == SubSeq(str, Len(prefix) + 1, Len(str))

\* \w of a regular expression: [A-Za-z0-9_]
IsWordChar(c) == IsDigit(c) \/ IsUpper(c) \/ IsLower(c) \/ c = "_"

\* String.prototype.toUpperCase on one ASCII character.
UpperChar(c) == IF IsLower(c) THEN Ascii[CodePoint(c) - 32 - 31] ELSE c

\* Variant: the separators are left in place.
ReplaceSeparators_None(str) == str

\* title.replace(/[-_]/g, ' ')
ReplaceSeparators(str) ==
    [i \in DOMAIN str |-> IF str[i] \in {"-", "_"} THEN " " ELSE str[i]]

\* Variant: only the first character of the string is upper-cased.
CapitalizeWords_FirstOnly(str) ==
    [i \in DOMAIN str |-> IF i = 1 THEN UpperChar(str[i]) ELSE str[i]]

\* title.replace(/\b\w/g, l => l.toUpperCase()): a word character that
\* follows no word character is upper-cased.
CapitalizeWords(str) ==
    [i \in DOMAIN str |->
        IF IsWordChar(str[i]) /\ (i = 1 \/ ~IsWordChar(str[i - 1]))
        THEN UpperChar(str[i])
        ELSE str[i]]

\* generateMRTitle, the conversion of kebab-case or snake_case.
ReadableTitle(str) == CapitalizeWords(ReplaceSeparators(str))

generateMRTitle(sourceBranch) ==
    IF StartsWith(sourceBranch, Str_feature)
    THEN Title_feat \o ReadableTitle(StripPrefix(sourceBranch, Str_feature))
    ELSE IF StartsWith(sourceBranch, Str_feat)
    THEN Title_feat \o ReadableTitle(StripPrefix(sourceBranch, Str_feat))
    ELSE IF StartsWith(sourceBranch, Str_bugfix)
    THEN Title_fix \o StripPrefix(sourceBranch, Str_bugfix)
    ELSE IF StartsWith(sourceBranch, Str_hotfix)
    THEN Title_fix \o StripPrefix(sourceBranch, Str_hotfix)
    ELSE IF StartsWith(sourceBranch, Str_docs)
    THEN Title_docs \o StripPrefix(sourceBranch, Str_docs)
    ELSE IF StartsWith(sourceBranch, Str_refactor)
    THEN Title_refactor \o StripPrefix(sourceBranch, Str_refactor)
    ELSE Title_feat \o ReadableTitle(sourceBranch)

(***************************************************************************)
(* Tool arguments: getArgumentValue, coerceToString                        *)
(*                                                                         *)
(* The arguments of a tool call are a function from the property names     *)
(* the caller supplied to values.  A value is a string, undefined, null,   *)
(* a number <<"number", n>>, a boolean <<"boolean", b>> or an object.      *)
(***************************************************************************)
Number(n) == <<"number", n>>
Boolean(b) == <<"boolean", b>>
Object == <<"object">>

IsNumber(value) == Len(value) = 2 /\ value[1] = "number"
IsBoolean(value) == Len(value) = 2 /\ value[1] = "boolean"
IsString(value) ==
    \A i \in DOMAIN value : value[i] \in DOMAIN CodePoints

Digits == <<"0", "1", "2", "3", "4", "5", "6", "7", "8", "9">>

\* String(n) for a natural number.
RECURSIVE NumberToString(_)
NumberToString(n) ==
    IF n < 10 THEN <<Digits[n + 1]>>
    ELSE Append(NumberToString(n \div 10), Digits[(n % 10) + 1])

Str_true == <<"t", "r", "u", "e">>
Str_false == <<"f", "a", "l", "s", "e">>

\* The first of the keys that the arguments own with a value other than
\* undefined.
getArgumentValue(a, keys) ==
    LET present == {i \in DOMAIN keys :
                       keys[i] \in DOMAIN a /\ a[keys[i]] # Undef}
    IN  IF present = {} THEN Undef
        ELSE a[keys[CHOOSE i \in present : \A j \in present : i <= j]]

coerceToString(value) ==
    IF value = Undef \/ value = Null THEN Undef
    ELSE IF IsNumber(value) THEN NumberToString(value[2])
    ELSE IF IsBoolean(value)
    THEN (IF value[2] THEN Str_true ELSE Str_false)
    ELSE IF IsString(value) THEN value
    ELSE Undef

\* a ?? b
OrElse(a, b) == IF a = Undef \/ a = Null THEN b ELSE a

(***************************************************************************)
(* parseGitlabReferenceString                                              *)
(***************************************************************************)
\* The outcome of `new URL(input)` on a string that is no absolute URL.
TypeError == <<"TypeError">>

\* Index of the first character of s, from position `from` on, that lies
\* in chars; Len(s) + 1 if there is none.
RECURSIVE FirstOf(_, _, _)
FirstOf(s, chars, from) ==
    IF from > Len(s) THEN Len(s) + 1
    ELSE IF s[from] \in chars THEN from
    ELSE FirstOf(s, chars, from + 1)

\* Index of the first character from position `from` on that is no slash.
RECURSIVE SkipSlashes(_, _)
SkipSlashes(s, from) ==
    IF from <= Len(s) /\ s[from] = "/" THEN SkipSlashes(s, from + 1)
    ELSE from

IsSchemeChar(c) ==
    IsDigit(c) \/ IsUpper(c) \/ IsLower(c) \/ c \in {"+", "-", "."}

\* Length of the URL scheme that s starts with, 0 if it starts with none.
SchemeLength(s) ==
    LET colon == FirstOf(s, {":"}, 1)
    IN  IF /\ colon > 1
           /\ colon <= Len(s)
           /\ IsUpper(s[1]) \/ IsLower(s[1])
           /\ \A i \in 2..(colon - 1) : IsSchemeChar(s[i])
        THEN colon - 1
        ELSE 0

SpecialSchemes ==
    {<<"h", "t", "t", "p">>, <<"h", "t", "t", "p", "s">>,
     <<"f", "t", "p">>, <<"w", "s">>, <<"w", "s", "s">>}

\* new URL(input).pathname for a string of the alphabet without dot
\* segments and without characters the URL parser escapes; TypeError if
\* the string is no absolute URL.
\* (the path starts at i and ends before the query or the fragment; a
\* special scheme needs a host, whose end is hostEnd; n is the length of
\* the scheme)
PathFrom(input, i) == SubSeq(input, i, FirstOf(input, {"?", "#"}, i) - 1)

HostPathname(input, hostStart, hostEnd) ==
    IF hostEnd = hostStart THEN TypeError
    ELSE IF PathFrom(input, hostEnd) = <<>> THEN <<"/">>
    ELSE PathFrom(input, hostEnd)

SpecialPathname(input, hostStart) ==
    HostPathname(input, hostStart,
                 FirstOf(input, {"/", "?", "#"}, hostStart))

SchemePathname(input, n) ==
    IF n = 0 THEN TypeError
    ELSE IF toLowerCase(SubSeq(input, 1, n)) \in SpecialSchemes
    THEN SpecialPathname(input, SkipSlashes(input, n + 2))
    ELSE IF /\ n + 3 <= Len(input)
            /\ input[n + 2] = "/"
            /\ input[n + 3] = "/"
    THEN PathFrom(input, FirstOf(input, {"/", "?", "#"}, n + 4))
    ELSE PathFrom(input, n + 2)

URLPathname(input) == SchemePathname(input, SchemeLength(input))

\* try { return result } catch { return fallback }
Catch(result, thrown, fallback) ==
    IF result = thrown THEN fallback ELSE result

\* parsePotentialUrl
parsePotentialUrl(input) == Catch(URLPathname(input), TypeError, input)

Str_git_at == <<"g", "i", "t", "@">>

\* parseSshPath: /^git@[^:]+:(.+)$/
parseSshPath(input) ==
    LET colon == FirstOf(input, {":"}, 5)
    IN  IF /\ StartsWith(input, Str_git_at)
           /\ colon > 5
           /\ colon < Len(input)
        THEN SubSeq(input, colon + 1, Len(input))
        ELSE input

Str_dash_merge_requests ==
    <<"/", "-", "/", "m", "e", "r", "g", "e", "_", "r", "e", "q", "u", "e",
      "s", "t", "s", "/">>
Str_merge_requests ==
    <<"/", "m", "e", "r", "g", "e", "_", "r", "e", "q", "u", "e", "s", "t",
      "s", "/">>

\* Index of the first character from position `from` on that is no digit.
RECURSIVE SkipDigits(_, _)
SkipDigits(s, from) ==
    IF from <= Len(s) /\ IsDigit(s[from]) THEN SkipDigits(s, from + 1)
    ELSE from

\* The positions at which /(.+?)marker(\d+)(?:\/.*)?$/i can place the
\* marker: something precedes it, digits follow it, and the digits are
\* followed by a slash or by the end of the input.
MarkerPositions(input, marker) ==
    {j \in 2..Len(input) :
        /\ j + Len(marker) <= Len(input)
        /\ toLowerCase(SubSeq(input, j, j + Len(marker) - 1)) = marker
        /\ LET digitsEnd == SkipDigits(input, j + Len(marker))
           IN  /\ digitsEnd > j + Len(marker)
               /\ digitsEnd > Len(input) \/ input[digitsEnd] = "/"}

\* The match of that expression: the lazy group ends at the first
\* position that lets the rest match.
MatchMergeRequest(input, marker) ==
    LET positions == MarkerPositions(input, marker)
        j == CHOOSE p \in positions : \A q \in positions : p <= q
    IN  [path |-> SubSeq(input, 1, j - 1),
         iid |-> SubSeq(input, j + Len(marker),
                        SkipDigits(input, j + Len(marker)) - 1)]

extractMergeRequestFromPath(input) ==
    IF MarkerPositions(input, Str_dash_merge_requests) # {}
    THEN MatchMergeRequest(input, Str_dash_merge_requests)
    ELSE IF MarkerPositions(input, Str_merge_requests) # {}
    THEN MatchMergeRequest(input, Str_merge_requests)
    ELSE [path |-> input, iid |-> Undef]

Str_dot_git == <<".", "g", "i", "t">>

EndsWith(str, suffix) ==
    /\ Len(str) >= Len(suffix)
    /\ SubSeq(str, Len(str) - Len(suffix) + 1, Len(str)) = suffix

RECURSIVE JoinSlash(_)
JoinSlash(parts) ==
    IF parts = <<>> THEN <<>>
    ELSE IF Len(parts) = 1 THEN parts[1]
    ELSE parts[1] \o <<"/">> \o JoinSlash(Tail(parts))

\* decodeURIComponent(segment), the segment itself if that throws.
DecodeSegment(segment) ==
    Catch(decodeURIComponent(segment), URIError, segment)

\* normalizePath: leading slashes, a query or fragment and a trailing
\* .git are removed, the segments are decoded and joined again.
StripLeadingSlashes(input) ==
    SubSeq(input, SkipSlashes(input, 1), Len(input))

StripQuery(noLead) == SubSeq(noLead, 1, FirstOf(noLead, {"?", "#"}, 1) - 1)

StripDotGit(noQuery) ==
    IF EndsWith(toLowerCase(noQuery), Str_dot_git)
    THEN SubSeq(noQuery, 1, Len(noQuery) - 4)
    ELSE noQuery

JoinDecoded(segments) ==
    JoinSlash([i \in DOMAIN segments |-> DecodeSegment(segments[i])])

normalizePath(input) ==
    JoinDecoded(Segments(StripDotGit(StripQuery(StripLeadingSlashes(input)))))

\* trimmed without the quotes around it.
StripQuotes(trimmed) ==
    IF \E quote \in {"QUOT", "'"} :
           /\ trimmed # <<>>
           /\ trimmed[1] = quote
           /\ trimmed[Len(trimmed)] = quote
    THEN SubSeq(trimmed, 2, Len(trimmed) - 1)
    ELSE trimmed

\* falsy strings (undefined, empty) become undefined: value || undefined
OrUndefined(str) == IF str = <<>> THEN Undef ELSE str

\* The null that parseGitlabReferenceString returns for a value that
\* holds no reference.
NoReference == [projectPath |-> Null, mergeRequestIid |-> Null]

\* parseGitlabReferenceString: NoReference, or the project path and the
\* IID found in the value.
ReferenceFrom(normalizedPath, mergeRequestIid) ==
    IF normalizedPath = <<>> /\ mergeRequestIid = Undef
    THEN NoReference
    ELSE [projectPath |-> OrUndefined(normalizedPath),
          mergeRequestIid |-> mergeRequestIid]

ReferenceOf(extracted) ==
    ReferenceFrom(normalizePath(extracted.path), extracted.iid)

parseGitlabReferenceString(value) ==
    IF value = Undef \/ value = Null \/ value = <<>> \/ Trim(value) = <<>>
    THEN NoReference
    ELSE ReferenceOf(
             extractMergeRequestFromPath(
                 parseSshPath(parsePotentialUrl(StripQuotes(Trim(value))))))

(***************************************************************************)
(* enhanceGitlabMergeRequestContext and the argument names of the tools    *)
(***************************************************************************)
MergeRequestUrlKeys ==
    <<"mergeRequestUrl", "merge_request_url", "mergeRequestLink",
      "merge_request_link", "mrUrl", "mr_url", "pullRequestUrl",
      "pull_request_url", "prUrl", "pr_url", "url">>

ProjectUrlKeys ==
    <<"projectUrl", "project_url", "repositoryUrl", "repository_url",
      "repoUrl", "repo_url", "gitlabUrl", "gitlab_url">>

\* !value of a string-typed slot
Falsy(str) == str = Undef \/ str = Null \/ str = <<>>

\* The loop over the candidates: a parsed project path or IID is taken
\* only while the context has none.
RECURSIVE EnhanceLoop(_, _)

\* Variant: what a candidate yields replaces what the context holds.
EnhancedBy_Overrides(parsed, context) ==
    [projectId |->
         IF ~Falsy(parsed.projectPath) THEN parsed.projectPath
         ELSE context.projectId,
     mergeRequestIid |->
         IF ~Falsy(parsed.mergeRequestIid) THEN parsed.mergeRequestIid
         ELSE context.mergeRequestIid]

\* The context after one candidate was parsed.
EnhancedBy(parsed, context) ==
    [projectId |->
         IF ~Falsy(parsed.projectPath) /\ Falsy(context.projectId)
         THEN parsed.projectPath
         ELSE context.projectId,
     mergeRequestIid |->
         IF ~Falsy(parsed.mergeRequestIid) /\ Falsy(context.mergeRequestIid)
         THEN parsed.mergeRequestIid
         ELSE context.mergeRequestIid]

\* The loop stops as soon as the context holds both.
EnhanceRest(rest, next) ==
    IF ~Falsy(next.projectId) /\ ~Falsy(next.mergeRequestIid)
    THEN next
    ELSE EnhanceLoop(rest, next)

EnhanceStep(parsed, rest, context) ==
    IF parsed = NoReference
    THEN EnhanceLoop(rest, context)
    ELSE EnhanceRest(rest, EnhancedBy(parsed, context))

EnhanceLoop(candidates, context) ==
    IF candidates = <<>> THEN context
    ELSE EnhanceStep(parseGitlabReferenceString(Head(candidates)),
                     Tail(candidates), context)

enhanceGitlabMergeRequestContext(a, context) ==
    LET mergeRequestUrl ==
            coerceToString(getArgumentValue(a, MergeRequestUrlKeys))
        projectUrl == coerceToString(getArgumentValue(a, ProjectUrlKeys))
        candidates ==
            SelectSeq(<<context.projectId, mergeRequestUrl, projectUrl>>,
                      LAMBDA value : /\ value \notin {Undef, Null}
                                     /\ Trim(value) # <<>>)
    IN  EnhanceLoop(candidates,
                    [projectId |-> OrElse(context.projectId, Undef),
                     mergeRequestIid |->
                         OrElse(context.mergeRequestIid, Undef)])

Str_gitlab == <<"g", "i", "t", "l", "a", "b">>

\* fetchPullRequest: the names of the repository and of the pull request
FetchRepositoryKeys ==
    <<"repository", "project", "projectId", "project_id", "project_path",
      "projectPath">>
FetchPullRequestKeys ==
    <<"pullRequestNumber", "pull_request_number", "pullRequestId",
      "pull_request_id", "mergeRequestIid", "merge_request_iid",
      "mergeRequestId", "merge_request_id">>

\* getMergeRequest: the names of the project and of the merge request
GetProjectIdKeys ==
    <<"projectId", "project_id", "project", "projectPath", "project_path",
      "repository", "repository_path">>
GetMergeRequestIidKeys ==
    <<"mergeRequestIid", "merge_request_iid", "mergeRequestIID",
      "merge_request_IID", "iid", "pullRequestNumber",
      "pull_request_number", "mergeRequestId", "merge_request_id">>

\* createMergeRequest: the names of the project
CreateProjectIdKeys ==
    <<"projectId", "project_id", "project", "projectPath", "project_path">>

\* ?? of the enhanced context over what the arguments gave.
Preferred(enhancedContext, repository, pullRequestIdentifier) ==
    [projectId |-> OrElse(enhancedContext.projectId, repository),
     mergeRequestIid |-> OrElse(enhancedContext.mergeRequestIid,
                                pullRequestIdentifier)]

Enhanced(a, repository, pullRequestIdentifier) ==
    Preferred(enhanceGitlabMergeRequestContext(a,
                  [projectId |-> repository,
                   mergeRequestIid |-> pullRequestIdentifier]),
              repository, pullRequestIdentifier)

\* fetchPullRequest up to the test of the pull request identifier.
fetchPullRequestIdentity(a) ==
    LET provider ==
            OrElse(coerceToString(getArgumentValue(a, <<"provider">>)),
                   Str_gitlab)
        repository ==
            coerceToString(getArgumentValue(a, FetchRepositoryKeys))
        pullRequestIdentifier ==
            coerceToString(getArgumentValue(a, FetchPullRequestKeys))
    IN  IF provider = Str_gitlab
        THEN Enhanced(a, repository, pullRequestIdentifier)
        ELSE [projectId |-> repository,
              mergeRequestIid |-> pullRequestIdentifier]

\* getMergeRequest up to the test of the merge request IID.
getMergeRequestIdentity(a) ==
    Enhanced(a, coerceToString(getArgumentValue(a, GetProjectIdKeys)),
             coerceToString(getArgumentValue(a, GetMergeRequestIidKeys)))

\* createMergeRequest: rawProjectIdInput; it names no merge request.
createMergeRequestIdentity(a) ==
    [projectId |-> coerceToString(getArgumentValue(a, CreateProjectIdKeys)),
     mergeRequestIid |-> Undef]

\* The project identifier handed to resolveGitlabProjectId and the merge
\* request identifier of the endpoint, for the arguments of a tool call.
IdentityArguments(name, a) ==
    CASE name = "fetch_pull_request" -> fetchPullRequestIdentity(a)
      [] name = "get_merge_request" -> getMergeRequestIdentity(a)
      [] name = "create_merge_request" -> createMergeRequestIdentity(a)

(***************************************************************************)
(* createMergeRequest: coerceToNumber, coerceToNumberArray,                *)
(* coerceToBoolean and the body of the POST                                *)
(***************************************************************************)
Array(items) == <<"array", items>>

IsArray(value) == Len(value) = 2 /\ value[1] = "array"

\* The value of a string of decimal digits.
RECURSIVE DecimalValue(_)
DecimalValue(str) ==
    IF str = <<>> THEN 0
    ELSE DecimalValue(SubSeq(str, 1, Len(str) - 1)) * 10
         + (CodePoint(str[Len(str)]) - 48)

\* Number(str) is a number for the strings of the alphabet that are
\* decimal digits with blanks around them, and NaN for its other
\* non-blank strings (signs, fractions, exponents and radix prefixes lie
\* outside the alphabet).
IsNumeric(str) ==
    Trim(str) # <<>> /\ \A i \in DOMAIN Trim(str) : IsDigit(Trim(str)[i])

\* coerceToNumber: a number (never NaN in arguments that arrived as
\* JSON), or a non-blank string that Number() can read.
coerceToNumber(value) ==
    IF value = Undef \/ value = Null THEN Undef
    ELSE IF IsNumber(value) THEN value
    ELSE IF IsString(value) /\ Trim(value) # <<>> /\ IsNumeric(value)
    THEN Number(DecimalValue(Trim(value)))
    ELSE Undef

\* value.split(',')
RECURSIVE SplitCommaAcc(_, _, _)
SplitCommaAcc(s, cur, acc) ==
    IF s = <<>> THEN Append(acc, cur)
    ELSE IF Head(s) = ","
    THEN SplitCommaAcc(Tail(s), <<>>, Append(acc, cur))
    ELSE SplitCommaAcc(Tail(s), Append(cur, Head(s)), acc)

\* items.map(coerceToNumber).filter(item => item !== undefined)
CoercedNumbers(items) ==
    SelectSeq([i \in DOMAIN items |-> coerceToNumber(items[i])],
              LAMBDA item : item # Undef)

\* parsed.length > 0 ? parsed : undefined
NonEmptyArray(parsed) == IF parsed = <<>> THEN Undef ELSE Array(parsed)

coerceToNumberArray(value) ==
    IF value = Undef \/ value = Null THEN Undef
    ELSE IF IsArray(value) THEN NonEmptyArray(CoercedNumbers(value[2]))
    ELSE IF IsString(value)
    THEN LET split == SplitCommaAcc(value, <<>>, <<>>)
             parts == SelectSeq([i \in DOMAIN split |-> Trim(split[i])],
                                LAMBDA part : part # <<>>)
         IN  NonEmptyArray(CoercedNumbers(parts))
    ELSE IF coerceToNumber(value) # Undef
    THEN Array(<<coerceToNumber(value)>>)
    ELSE Undef

TrueWords ==
    {<<"t", "r", "u", "e">>, <<"1">>, <<"y", "e", "s">>, <<"y">>,
     <<"o", "n">>}
FalseWords ==
    {<<"f", "a", "l", "s", "e">>, <<"0">>, <<"n", "o">>, <<"n">>,
     <<"o", "f", "f">>}

\* Variant: every string other than a word for false counts as true.
coerceToBoolean_StringsTrue(value, defaultValue) ==
    IF value = Undef \/ value = Null THEN defaultValue
    ELSE IF IsBoolean(value) THEN value[2]
    ELSE IF IsNumber(value) THEN value[2] # 0
    ELSE IF IsString(value)
    THEN toLowerCase(Trim(value)) \notin FalseWords
    ELSE defaultValue

coerceToBoolean(value, defaultValue) ==
    IF value = Undef \/ value = Null THEN defaultValue
    ELSE IF IsBoolean(value) THEN value[2]
    ELSE IF IsNumber(value) THEN value[2] # 0
    ELSE IF IsString(value) /\ toLowerCase(Trim(value)) \in TrueWords
    THEN TRUE
    ELSE IF IsString(value) /\ toLowerCase(Trim(value)) \in FalseWords
    THEN FALSE
    ELSE defaultValue

SourceBranchKeys == <<"sourceBranch", "source_branch", "source">>
TargetBranchKeys ==
    <<"targetBranch", "target_branch", "destinationBranch",
      "destination_branch">>
TitleKeys == <<"title", "mr_title", "mergeRequestTitle">>
DescriptionKeys == <<"description", "body", "mergeRequestDescription">>
AssigneeIdKeys == <<"assigneeId", "assignee_id", "assignee">>
ReviewerIdsKeys == <<"reviewerIds", "reviewer_ids", "reviewers">>
DeleteSourceBranchKeys ==
    <<"deleteSourceBranch", "delete_source_branch", "removeSourceBranch",
      "remove_source_branch">>
SquashKeys == <<"squash", "shouldSquash", "squash_commits">>

Str_main == <<"m", "a", "i", "n">>

\* createMergeRequest: sourceBranchInput
SourceBranchArgument(a) ==
    coerceToString(getArgumentValue(a, SourceBranchKeys))

\* createMergeRequest: requestData, for arguments whose source branch is
\* not missing.  A property that is not set is undefined.
requestData(a) ==
    LET sourceBranch == Trim(SourceBranchArgument(a))
        targetBranch ==
            OrElse(coerceToString(getArgumentValue(a, TargetBranchKeys)),
                   Str_main)
        title == coerceToString(getArgumentValue(a, TitleKeys))
        description == coerceToString(getArgumentValue(a, DescriptionKeys))
        assigneeId == coerceToNumber(getArgumentValue(a, AssigneeIdKeys))
        reviewerIds ==
            coerceToNumberArray(getArgumentValue(a, ReviewerIdsKeys))
        deleteSourceBranch ==
            coerceToBoolean(getArgumentValue(a, DeleteSourceBranchKeys),
                            FALSE)
        squash == coerceToBoolean(getArgumentValue(a, SquashKeys), FALSE)
        mrTitle == IF Falsy(title) THEN generateMRTitle(sourceBranch)
                   ELSE title
    IN  [source_branch |-> sourceBranch,
         target_branch |-> targetBranch,
         title |-> mrTitle,
         description |-> IF Falsy(description) THEN Undef ELSE description,
         assignee_id |-> assigneeId,
         reviewer_ids |-> reviewerIds,
         remove_source_branch |->
             IF deleteSourceBranch THEN Boolean(TRUE) ELSE Undef,
         squash |-> IF squash THEN Boolean(TRUE) ELSE Undef]

\* The body when createMergeRequest answers before it builds one.
NoRequestData ==
    [source_branch |-> Undef, target_branch |-> Undef, title |-> Undef,
     description |-> Undef, assignee_id |-> Undef, reviewer_ids |-> Undef,
     remove_source_branch |-> Undef, squash |-> Undef]

(***************************************************************************)
(* State                                                                   *)
(***************************************************************************)
VARIABLES
    apiHost,        \* new URL(config.apiBaseUrl).host, or NoHost
    gitInfo,        \* what git inspection of the working directory yields
    tool,           \* the tool invoked, "none" before the call
    args,           \* its coerced arguments
    pc,             \* the await the invocation is suspended at
    queue,          \* resolveGitlabProjectId: queue
    seenNormalized, \* resolveGitlabProjectId: seenNormalized
    attempts,       \* resolveGitlabProjectId: attempts
    fallbackCandidatesQueued,
    current,        \* the candidate whose verification is awaited
    fallback,       \* getFallbackProjectCandidates suspended at the search
    resolution,     \* the ProjectResolutionResult once returned
    wire,           \* HTTP requests issued so far, with their answers
    response,       \* what the tool call handed to the dispatch layer
    cwd,            \* process.cwd()
    gitCalls,       \* invocations of executeGitCommand so far
    maxRetries,     \* ApiClient.maxRetries
    apiEntry,       \* the ApiClient method called
    apiPc,          \* the await that call is suspended at
    requestCall,    \* requestWithRateLimit: which call of this.request
    attempt,        \* executeWithRetry: attempt
    lastError,      \* executeWithRetry: lastError
    axiosLog,       \* answers to the axios(config) calls made so far
    sleepLog,       \* calls of sleep() made so far
    fn,             \* the pure function under evaluation
    fnArg,          \* its argument
    fnResults,      \* the values it returned, in order
    mode,           \* one invocation, two interleaved, or one run again
    other,          \* the locals of the invocation that is not running
    recorded,       \* the locals of the invocation that is run again
    calls,          \* makeApiRequest: the state of each call
    stdin,          \* bytes the client has written and stdin has not emitted
    delivered,      \* the chunks stdin has emitted in its data events
    buffer,         \* SafeStdioServerTransport.buffer
    callbacks,      \* calls of onmessage and onerror made so far
    transport,      \* SafeStdioServerTransport: started or closed
    thrown,         \* an exception has left processReadBuffer
    closeAt         \* the callback that calls close(), 0 if none does

resolverVars == <<apiHost, gitInfo, tool, args, pc, queue, seenNormalized,
                  attempts, fallbackCandidatesQueued, current, fallback,
                  resolution, wire, response>>

gitVars == <<cwd, gitCalls>>

apiClientVars == <<maxRetries, apiEntry, apiPc, requestCall, attempt,
                   lastError, axiosLog, sleepLog>>

fnVars == <<fn, fnArg, fnResults>>

serverVars == <<mode, other, recorded, calls>>

transportVars == <<stdin, delivered, buffer, callbacks, transport, thrown,
                   closeAt>>

vars == <<apiHost, gitInfo, tool, args, pc, queue, seenNormalized, attempts,
          fallbackCandidatesQueued, current, fallback, resolution, wire,
          response, cwd, gitCalls, maxRetries, apiEntry, apiPc, requestCall,
          attempt, lastError, axiosLog, sleepLog, fn, fnArg, fnResults,
          mode, other, recorded, calls, stdin, delivered, buffer, callbacks,
          transport, thrown, closeAt>>

NoArgs == [projectId |-> Undef, mergeRequestIid |-> Undef,
           sourceBranch |-> Undef]

NoFallback == [candidates |-> <<>>, searchIdentifier |-> Undef,
               excludeNormalized |-> Undef]

NoReason == "undefined"

NoResolution ==
    [outcome |-> "pending", success |-> FALSE, rawProjectId |-> Undef,
     normalizedProjectId |-> Undef, source |-> "none", projectData |-> <<>>,
     attempts |-> <<>>, providedProjectId |-> Undef, reason |-> NoReason]

NoDetails ==
    [providedProjectId |-> Undef, resolvedProjectId |-> Undef,
     normalizedProjectId |-> Undef, resolutionSource |-> "none",
     reason |-> NoReason, attempts |-> <<>>]

\* requestDetails of a payload that reports no merge-request request.
NoRequestDetails == [endpoint |-> Undef, method |-> "none"]

NoResponse ==
    [kind |-> "none", success |-> FALSE, error |-> "", message |-> "",
     details |-> NoDetails, suggestions |-> <<>>, httpStatus |-> NoStatus,
     troubleshooting |-> <<>>, requestDetails |-> NoRequestDetails]

\* An exception left the tool method; the dispatch layer rethrows it as an
\* McpError(InternalError).
ThrownResponse(what) ==
    [kind |-> "thrown", success |-> FALSE, error |-> what, message |-> "",
     details |-> NoDetails, suggestions |-> <<>>, httpStatus |-> NoStatus,
     troubleshooting |-> <<>>, requestDetails |-> NoRequestDetails]

\* The error slot of executeWithRetry before any attempt failed.
NoError ==
    [isAxiosError |-> FALSE, responseStatus |-> NoStatus,
     resetHeader |-> NoHeader, status |-> NoStatus, code |-> NoCode]

\* No executeGitCommand has run; the process is where it was started.
GitIdle ==
    /\ cwd = StartDir
    /\ gitCalls = <<>>

\* No ApiClient call is in progress; maxRetries has its default.
ApiClientIdle ==
    /\ maxRetries = 3
    /\ apiEntry = "none"
    /\ apiPc = "idle"
    /\ requestCall = 0
    /\ attempt = 0
    /\ lastError = NoError
    /\ axiosLog = <<>>
    /\ sleepLog = <<>>

\* No pure function is under evaluation.
FnIdle ==
    /\ fn = "none"
    /\ fnArg = Undef
    /\ fnResults = <<>>

\* No tool call is in progress (configuration: gitlab.com, no repository).
ResolverIdle ==
    /\ apiHost = "gitlab.com"
    /\ gitInfo = [kind |-> "throws", isGitlabProject |-> FALSE,
                  projectId |-> <<>>, projectPath |-> <<>>,
                  remoteHost |-> BadHost]
    /\ tool = "none"
    /\ args = NoArgs
    /\ pc = "idle"
    /\ queue = <<>>
    /\ seenNormalized = {}
    /\ attempts = <<>>
    /\ fallbackCandidatesQueued = FALSE
    /\ current = NoCandidate
    /\ fallback = NoFallback
    /\ resolution = NoResolution
    /\ wire = <<>>
    /\ response = NoResponse

\* The locals of a tool invocation that has not started.
IdleInvocation ==
    [tool |-> "none", args |-> NoArgs, pc |-> "idle", queue |-> <<>>,
     seenNormalized |-> {}, attempts |-> <<>>,
     fallbackCandidatesQueued |-> FALSE, current |-> NoCandidate,
     fallback |-> NoFallback, resolution |-> NoResolution, wire |-> <<>>,
     response |-> NoResponse]

\* Tool invocations that may be awaiting makeApiRequest at the same time.
MaxInvocations == 6

Invocations == 1..MaxInvocations

\* One tool invocation, and no API call made by the handlers.
ServerIdle ==
    /\ mode = "single"
    /\ other = IdleInvocation
    /\ recorded = IdleInvocation
    /\ calls = [i \in Invocations |-> "idle"]

\* The transport is started and has received nothing.
TransportIdle ==
    /\ stdin = <<>>
    /\ delivered = <<>>
    /\ buffer = Undef
    /\ callbacks = <<>>
    /\ transport = "started"
    /\ thrown = FALSE
    /\ closeAt = 0

Init ==
    /\ TransportIdle
    /\ GitIdle
    /\ ApiClientIdle
    /\ FnIdle
    /\ ServerIdle
    /\ apiHost \in ApiHosts
    /\ gitInfo \in GitInfos
    /\ tool = "none"
    /\ args = NoArgs
    /\ pc = "idle"
    /\ queue = <<>>
    /\ seenNormalized = {}
    /\ attempts = <<>>
    /\ fallbackCandidatesQueued = FALSE
    /\ current = NoCandidate
    /\ fallback = NoFallback
    /\ resolution = NoResolution
    /\ wire = <<>>
    /\ response = NoResponse

(***************************************************************************)
(* Results and payloads                                                    *)
(***************************************************************************)
Truthy(str) == str # Undef /\ str # <<>>

\* resolveGitlabProjectId, the reason of a failed resolution.
FailureReason(providedProjectId, normalizedProvidedProjectId, att) ==
    IF Truthy(providedProjectId) /\ normalizedProvidedProjectId = Null
    THEN "invalid_format"
    ELSE IF \E i \in DOMAIN att : att[i].status = 404
    THEN "not_found"
    ELSE IF att = <<>>
    THEN "not_detected"
    ELSE NoReason

\* normalizedProvidedProjectId of resolveGitlabProjectId
NormalizedProvided(rawProjectIdInput) ==
    IF Truthy(rawProjectIdInput) THEN normalizeProjectId(rawProjectIdInput)
    ELSE Null

FailureResult(rawProjectIdInput, att) ==
    [outcome |-> "failure", success |-> FALSE, rawProjectId |-> Undef,
     normalizedProjectId |-> Undef, source |-> "none", projectData |-> <<>>,
     attempts |-> att, providedProjectId |-> rawProjectIdInput,
     reason |-> FailureReason(rawProjectIdInput,
                              NormalizedProvided(rawProjectIdInput), att)]

SuccessResult(rawProjectIdInput, candidate, projectData, att) ==
    [outcome |-> "success", success |-> TRUE,
     rawProjectId |-> candidate.rawProjectId,
     normalizedProjectId |-> candidate.normalizedProjectId,
     source |-> candidate.source, projectData |-> projectData,
     attempts |-> att, providedProjectId |-> rawProjectIdInput,
     reason |-> NoReason]

formatProjectResolutionDetails(res) ==
    [providedProjectId |-> res.providedProjectId,
     resolvedProjectId |-> res.rawProjectId,
     normalizedProjectId |-> res.normalizedProjectId,
     resolutionSource |-> res.source,
     reason |-> res.reason,
     attempts |-> [i \in DOMAIN res.attempts |->
                     [source |-> res.attempts[i].candidate.source,
                      rawProjectId |-> res.attempts[i].candidate.rawProjectId,
                      normalizedProjectId |->
                          res.attempts[i].candidate.normalizedProjectId,
                      success |-> res.attempts[i].success,
                      status |-> res.attempts[i].status]]]

\* buildProjectResolutionError: title, message and suggestions by reason.
buildProjectResolutionError(res, context) ==
    CASE res.reason = "invalid_format" ->
           [errorTitle |-> "Invalid project ID format",
            message |-> "Project ID should be in format group/project or numeric ID",
            suggestions |-> <<"Use project path format",
                              "Run tool with workingDirectory",
                              "Use numeric project ID">>]
      [] res.reason = "not_detected" ->
           [errorTitle |-> "Project auto-detection failed",
            message |-> "Could not detect GitLab project automatically from git remotes",
            suggestions |-> <<"Provide projectId explicitly",
                              "Ensure workingDirectory points to the GitLab repository",
                              "If remote is not origin, pass remoteName">>]
      [] res.reason = "not_found" ->
           [errorTitle |-> "Project not found",
            message |-> "GitLab API returned 404 for provided project ID candidates",
            suggestions |-> <<"Verify the project exists and you have access",
                              "Check git remote path",
                              "Try using numeric project ID from GitLab project settings">>]
      [] OTHER ->
           [errorTitle |-> "Project Resolution Failed",
            message |-> IF context = "fetch"
                        THEN "Unable to resolve project ID from provided parameters or git remotes"
                        ELSE "Unable to resolve project ID needed to create merge request",
            suggestions |-> <<"Verify the project exists and you have access",
                              "Provide projectId in format group/project",
                              "Try using numeric project ID">>]

\* The payload getMergeRequest / createMergeRequest return when the
\* resolution failed.
ResolutionErrorResponse(res, context) ==
    LET built == buildProjectResolutionError(res, context)
    IN  [kind |-> "resolution_error", success |-> FALSE,
         error |-> built.errorTitle, message |-> built.message,
         details |-> formatProjectResolutionDetails(res),
         suggestions |-> built.suggestions, httpStatus |-> NoStatus,
         troubleshooting |-> <<>>, requestDetails |-> NoRequestDetails]

MissingIidResponse ==
    [kind |-> "missing_iid", success |-> FALSE,
     error |-> "Missing merge request IID",
     message |-> "Please provide mergeRequestIid",
     details |-> NoDetails,
     suggestions |-> <<"The IID is the number visible in the merge request URL",
                       "Pass mergeRequestIid or merge_request_iid in the tool arguments">>,
     httpStatus |-> NoStatus,
     troubleshooting |-> <<>>, requestDetails |-> NoRequestDetails]

MissingBranchResponse ==
    [kind |-> "missing_branch", success |-> FALSE,
     error |-> "Missing source branch",
     message |-> "Please provide sourceBranch",
     details |-> NoDetails,
     suggestions |-> <<"Pass sourceBranch or source_branch in the tool arguments",
                       "Ensure the branch exists in the GitLab project">>,
     httpStatus |-> NoStatus,
     troubleshooting |-> <<>>, requestDetails |-> NoRequestDetails]

\* The arguments of the call in progress, as the step being taken sees them
\* (CallTool binds them in the step that starts the resolution).
Context == IF tool' = "get_merge_request" THEN "fetch" ELSE "create"

\* The switch (status) of the catch blocks of getMergeRequest ("fetch") and
\* createMergeRequest ("create").
Troubleshooting(context, status) ==
    IF context = "fetch"
    THEN CASE status = 401 -> <<"Check API token validity",
                                "Verify token has not expired",
                                "Ensure token has correct permissions">>
           [] status = 403 -> <<"Check if you have read access to the project",
                                "Verify you have permission to view merge requests",
                                "Check if the merge request is private">>
           [] status = 404 -> <<"Verify project exists and you have access",
                                "Check if merge request IID is correct",
                                "Verify the merge request has not been deleted",
                                "Try using different project ID format">>
           [] OTHER -> <<>>
    ELSE CASE status = 400 -> <<"Check if source branch exists",
                                "Verify branch names are valid",
                                "Ensure target branch exists",
                                "Check if MR already exists for this branch">>
           [] status = 401 -> <<"Check API token validity",
                                "Verify token has not expired",
                                "Ensure token has correct permissions">>
           [] status = 403 -> <<"Check if you have push access to the project",
                                "Verify you have permission to create merge requests",
                                "Check if branch protection rules allow MR creation">>
           [] status = 404 -> <<"Verify project exists and you have access",
                                "Check if source branch exists",
                                "Try using different project ID format",
                                "Verify GitLab API base URL is correct">>
           [] status = 409 -> <<"A merge request may already exist for this branch",
                                "Check for conflicting branch names",
                                "Verify source and target branches are different">>
           [] OTHER -> <<>>

\* requestDetails of the catch blocks: the endpoint's project and method.
RequestDetails(res, context) ==
    [endpoint |-> res.normalizedProjectId,
     method |-> IF context = "fetch" THEN "GET" ELSE "POST"]

\* The payload after the merge-request endpoint answered.
MergeRequestResponse(res, mrRes) ==
    IF mrRes.ok
    THEN [kind |-> "mr_ok", success |-> TRUE, error |-> "",
          message |-> "Merge request request succeeded",
          details |-> formatProjectResolutionDetails(res),
          suggestions |-> <<>>, httpStatus |-> NoStatus,
          troubleshooting |-> <<>>, requestDetails |-> NoRequestDetails]
    ELSE [kind |-> "mr_error", success |-> FALSE,
          error |-> "API request failed",
          message |-> "Failed merge request request",
          details |-> formatProjectResolutionDetails(res),
          suggestions |-> <<>>,
          httpStatus |-> IF isAxiosError(mrRes.error)
                         THEN mrRes.error.responseStatus
                         ELSE NoStatus,
          troubleshooting |-> IF isAxiosError(mrRes.error)
                              THEN Troubleshooting(Context,
                                       mrRes.error.responseStatus)
                              ELSE <<>>,
          requestDetails |-> RequestDetails(res, Context)]

\* resolveGitlabProjectId: providedProjectId
providedProjectId == args'.projectId

(***************************************************************************)
(* HTTP requests as they appear on the wire                                *)
(***************************************************************************)
VerifyRequest(candidate) ==
    [kind |-> "verify", id |-> candidate.normalizedProjectId,
     source |-> candidate.source, outcome |-> Pending]

SearchRequest(searchTerm) ==
    [kind |-> "search", id |-> encodeURIComponent(searchTerm),
     source |-> "query", outcome |-> Pending]

MergeRequestRequest(normalizedProjectId) ==
    [kind |-> "mr", id |-> normalizedProjectId, source |-> "handler",
     outcome |-> Pending]

\* The wire once its last, pending request is answered by out.
Answered(w, out) == [w EXCEPT ![Len(w)].outcome = out]

(***************************************************************************)
(* Control flow of one tool invocation, from one await to the next         *)
(***************************************************************************)
\* Variant: the head is read but not removed (queue[0] for queue.shift()).
Shift_KeepsHead(q) == q

\* queue.shift(): the queue left behind.
Shift(q) == Tail(q)

\* Variant: the merge-request endpoint is addressed by the raw identifier.
MergeRequestProjectId_Raw(res) == res.rawProjectId

\* getMergeRequest / createMergeRequest: normalizedProjectId, the {id} of
\* the merge-request endpoint.
MergeRequestProjectId(res) == res.normalizedProjectId

\* An exception leaves resolveGitlabProjectId; neither getMergeRequest nor
\* createMergeRequest catches it, the tool call fails in the dispatch layer.
ThrowFromResolution(what, qs, att, fcq, w) ==
    /\ queue' = qs.queue
    /\ seenNormalized' = qs.seen
    /\ attempts' = att
    /\ fallbackCandidatesQueued' = fcq
    /\ current' = NoCandidate
    /\ fallback' = NoFallback
    /\ resolution' = [NoResolution EXCEPT !.outcome = "thrown"]
    /\ wire' = w
    /\ response' = ThrownResponse(what)
    /\ pc' = "done"

\* getMergeRequest / createMergeRequest once resolveGitlabProjectId returned
\* res: a failed resolution is answered at once, a successful one is
\* followed by the request to the merge-request endpoint.
AfterResolution(res, w) ==
    /\ resolution' = res
    /\ IF ~res.success
       THEN /\ response' = ResolutionErrorResponse(res, Context)
            /\ wire' = w
            /\ pc' = "done"
       ELSE /\ response' = response
            /\ wire' = Append(w, MergeRequestRequest(MergeRequestProjectId(res)))
            /\ pc' = "mr_wait"

\* resolveGitlabProjectId at the head of `while (queue.length > 0)`.
LoopHead(qs, att, fcq, w) ==
    /\ seenNormalized' = qs.seen
    /\ attempts' = att
    /\ fallbackCandidatesQueued' = fcq
    /\ fallback' = NoFallback
    /\ IF qs.queue = <<>>
       THEN /\ queue' = <<>>
            /\ current' = NoCandidate
            /\ AfterResolution(FailureResult(providedProjectId, att), w)
       ELSE /\ queue' = Shift(qs.queue)
            /\ current' = Head(qs.queue)
            /\ wire' = Append(w, VerifyRequest(Head(qs.queue)))
            /\ pc' = "verify_wait"
            /\ UNCHANGED <<resolution, response>>

\* The candidates returned by getFallbackProjectCandidates are enqueued and
\* the loop is entered (first call) or continued (call after a 404).
FinishFallback(candidates, qs, att, fcq, w) ==
    LoopHead(EnqueueAll(qs, candidates), att, fcq \/ candidates # <<>>, w)

\* Variant: the search candidate is put in front of the git candidate.
FallbackCandidates_SearchFirst(candidates, searchCandidate, excludeNormalized) ==
    IF /\ searchCandidate # NoCandidate
       /\ searchCandidate.normalizedProjectId # excludeNormalized
       /\ ~\E i \in DOMAIN candidates :
             candidates[i].normalizedProjectId =
                 searchCandidate.normalizedProjectId
    THEN <<searchCandidate>> \o candidates
    ELSE candidates

\* getFallbackProjectCandidates: the candidate list once the search
\* candidate (possibly none) is known.
FallbackCandidates(candidates, searchCandidate, excludeNormalized) ==
    IF /\ searchCandidate # NoCandidate
       /\ searchCandidate.normalizedProjectId # excludeNormalized
       /\ ~\E i \in DOMAIN candidates :
             candidates[i].normalizedProjectId =
                 searchCandidate.normalizedProjectId
    THEN Append(candidates, searchCandidate)
    ELSE candidates

\* No directory: getWorkingDirectoryArg returned undefined.
NoDirectory == ""

WorkingDirectoryKeys == <<"workingDirectory", "working_directory", "cwd">>

\* getWorkingDirectoryArg: the first of the three names the arguments carry,
\* when it names a directory that exists.
getWorkingDirectoryArg(a) ==
    LET given == {i \in DOMAIN WorkingDirectoryKeys :
                      WorkingDirectoryKeys[i] \in DOMAIN a}
        candidate == IF given = {} THEN NoDirectory
                     ELSE a[WorkingDirectoryKeys[
                              CHOOSE i \in given : \A j \in given : i <= j]]
    IN  IF candidate # NoDirectory /\ candidate \in ExistingDirs
        THEN candidate
        ELSE NoDirectory

\* The repository checked out in /work/repo, and a directory that holds no
\* repository.
OtherRepositoryInfo ==
    [kind |-> "info", isGitlabProject |-> TRUE,
     projectId |-> encodeURIComponent(Str_gq), projectPath |-> Str_gq,
     remoteHost |-> "gitlab.com"]

NoRepositoryInfo ==
    [kind |-> "throws", isGitlabProject |-> FALSE, projectId |-> <<>>,
     projectPath |-> <<>>, remoteHost |-> BadHost]

\* What executeGitCommand('get_project_info', directory) finds: gitInfo is
\* the repository of the directory the server was started in.
GitInfoAt(directory) ==
    IF directory = StartDir THEN gitInfo
    ELSE IF directory = "/work/repo" THEN OtherRepositoryInfo
    ELSE NoRepositoryInfo

\* getProjectCandidateFromGit: the directory handed to executeGitCommand,
\* getWorkingDirectoryArg(args) ?? process.cwd(), and what is found there.
InspectedDirectory ==
    IF getWorkingDirectoryArg(args') # NoDirectory
    THEN getWorkingDirectoryArg(args')
    ELSE cwd

InspectedInfo == GitInfoAt(InspectedDirectory)

\* getFallbackProjectCandidates up to its await: git inspection, then either
\* the search request is sent or the search tier is skipped.
StartFallback(excludeNormalized, qs, att, fcq, w) ==
    /\ gitCalls' = Append(gitCalls,
                          GitCall("get_project_info", InspectedDirectory, cwd,
                                  InspectedInfo.kind = "throws"))
    /\ cwd' = executeGitCommand("get_project_info", InspectedDirectory, cwd,
                                InspectedInfo.kind = "throws").cwd
    /\ LET gitCandidate == getProjectCandidateFromGit(InspectedInfo, apiHost)
           candidates == IF /\ gitCandidate # NoCandidate
                            /\ gitCandidate.normalizedProjectId # excludeNormalized
                         THEN <<gitCandidate>>
                         ELSE <<>>
           searchIdentifier == IF providedProjectId # Undef THEN providedProjectId
                               ELSE IF gitCandidate # NoCandidate
                               THEN gitCandidate.rawProjectId
                               ELSE Undef
           searchTerm == SearchTerm(searchIdentifier)
       IN  IF searchTerm = URIError
           THEN ThrowFromResolution("URIError", qs, att, fcq, w)
           ELSE IF searchTerm = Null
           THEN FinishFallback(candidates, qs, att, fcq, w)
           ELSE /\ queue' = qs.queue
                /\ seenNormalized' = qs.seen
                /\ attempts' = att
                /\ fallbackCandidatesQueued' = fcq
                /\ current' = NoCandidate
                /\ fallback' = [candidates |-> candidates,
                                searchIdentifier |-> searchIdentifier,
                                excludeNormalized |-> excludeNormalized]
                /\ wire' = Append(w, SearchRequest(searchTerm))
                /\ pc' = "search_wait"
                /\ UNCHANGED <<resolution, response>>

\* resolveGitlabProjectId from its entry to its first await.
StartResolution(rawProjectIdInput) ==
    LET normalizedProvidedProjectId == NormalizedProvided(rawProjectIdInput)
        empty == [queue |-> <<>>, seen |-> {}]
    IN  IF /\ normalizedProvidedProjectId # Null
           /\ decodeURIComponent(normalizedProvidedProjectId) = URIError
        THEN /\ ThrowFromResolution("URIError", empty, <<>>, FALSE, <<>>)
             /\ UNCHANGED gitVars
        ELSE LET qs == IF normalizedProvidedProjectId # Null
                       THEN enqueueCandidate(empty,
                                Candidate(rawProjectIdInput,
                                          normalizedProvidedProjectId,
                                          "input"))
                       ELSE empty
             IN  IF qs.queue = <<>>
                 THEN StartFallback(Undef, qs, <<>>, FALSE, <<>>)
                 ELSE /\ LoopHead(qs, <<>>, FALSE, <<>>)
                      /\ UNCHANGED gitVars

\* Variant: the source branch is tested before it is trimmed.
MissingSourceBranch_Untrimmed(sourceBranchInput) ==
    sourceBranchInput = Undef \/ sourceBranchInput = <<>>

\* createMergeRequest: !sourceBranch, for sourceBranchInput?.trim()
MissingSourceBranch(sourceBranchInput) ==
    sourceBranchInput = Undef \/ Trim(sourceBranchInput) = <<>>

(***************************************************************************)
(* Actions                                                                 *)
(***************************************************************************)
\* The dispatch layer calls get_merge_request or create_merge_request.  The
\* arguments carry the project identifier, the IID and the source branch and
\* no URL field, so enhanceGitlabMergeRequestContext returns the identifier
\* and the IID it was given.
CallTool(name, a) ==
    /\ pc = "idle"
    /\ tool' = name
    /\ args' = a
    /\ UNCHANGED <<apiHost, gitInfo, apiClientVars, fnVars, serverVars,
                   transportVars>>
    /\ IF name = "get_merge_request" /\ ~Truthy(a.mergeRequestIid)
       THEN /\ response' = MissingIidResponse
            /\ pc' = "done"
            /\ UNCHANGED <<queue, seenNormalized, attempts,
                           fallbackCandidatesQueued, current, fallback,
                           resolution, wire, gitVars>>
       ELSE IF /\ name = "create_merge_request"
               /\ MissingSourceBranch(a.sourceBranch)
       THEN /\ response' = MissingBranchResponse
            /\ pc' = "done"
            /\ UNCHANGED <<queue, seenNormalized, attempts,
                           fallbackCandidatesQueued, current, fallback,
                           resolution, wire, gitVars>>
       ELSE StartResolution(a.projectId)

\* The project-search request is answered.
SearchReply(out) ==
    /\ pc = "search_wait"
    /\ UNCHANGED <<apiHost, gitInfo, tool, args, gitVars, apiClientVars,
                   fnVars, serverVars, transportVars>>
    /\ LET res == makeApiRequest(out)
           searchCandidate ==
               getProjectCandidateFromSearch(fallback.searchIdentifier, res)
           candidates == FallbackCandidates(fallback.candidates,
                                            searchCandidate,
                                            fallback.excludeNormalized)
       IN  FinishFallback(candidates,
                          [queue |-> queue, seen |-> seenNormalized],
                          attempts, fallbackCandidatesQueued,
                          Answered(wire, out))

\* GET projects/{id} for the current candidate is answered.
VerifyReply(out) ==
    /\ pc = "verify_wait"
    /\ UNCHANGED <<apiHost, gitInfo, tool, args, apiClientVars, fnVars,
                   serverVars, transportVars>>
    /\ LET verification == verifyProjectCandidate(current, makeApiRequest(out))
           att == Append(attempts, verification.attempt)
           qs == [queue |-> queue, seen |-> seenNormalized]
           w == Answered(wire, out)
       IN  IF verification.throws
           THEN /\ ThrowFromResolution("ApiError", qs, att,
                                       fallbackCandidatesQueued, w)
                /\ UNCHANGED gitVars
           ELSE IF verification.verified
           THEN /\ attempts' = att
                /\ UNCHANGED <<queue, seenNormalized,
                               fallbackCandidatesQueued, current, fallback,
                               gitVars>>
                /\ AfterResolution(
                       SuccessResult(providedProjectId, current,
                                     verification.projectData, att), w)
           ELSE IF verification.status = 404 /\ ~fallbackCandidatesQueued
           THEN StartFallback(current.normalizedProjectId, qs, att,
                              fallbackCandidatesQueued, w)
           ELSE /\ LoopHead(qs, att, fallbackCandidatesQueued, w)
                /\ UNCHANGED gitVars

\* The merge-request endpoint is answered.
MergeRequestReply(out) ==
    /\ pc = "mr_wait"
    /\ UNCHANGED <<apiHost, gitInfo, tool, args, queue, seenNormalized,
                   attempts, fallbackCandidatesQueued, current, fallback,
                   resolution, gitVars, apiClientVars, fnVars, serverVars,
                   transportVars>>
    /\ response' = MergeRequestResponse(resolution, makeApiRequest(out))
    /\ wire' = Answered(wire, out)
    /\ pc' = "done"

ToolArgs ==
    [projectId : ProjectIdInputs, mergeRequestIid : MergeRequestIidInputs,
     sourceBranch : SourceBranchInputs]

Next ==
    \/ \E name \in Tools, a \in ToolArgs : CallTool(name, a)
    \/ \E out \in SearchOutcomes : SearchReply(out)
    \/ \E out \in VerifyOutcomes(current.normalizedProjectId) : VerifyReply(out)
    \/ \E out \in MrOutcomes : MergeRequestReply(out)

Spec == Init /\ [][Next]_vars

\* Every request is answered in the end: the HTTP client gives up on a
\* request after its timeout (30 s unless configured otherwise) and the
\* event loop runs every continuation that is ready.
LiveSpec == Spec /\ WF_vars(Next)

(***************************************************************************)
(* Two tool invocations interleaved at their awaits, and one of them run   *)
(* again alone against the answers it was given                            *)
(***************************************************************************)
\* The locals of the invocation that is running.
Locals ==
    [tool |-> tool, args |-> args, pc |-> pc, queue |-> queue,
     seenNormalized |-> seenNormalized, attempts |-> attempts,
     fallbackCandidatesQueued |-> fallbackCandidatesQueued,
     current |-> current, fallback |-> fallback, resolution |-> resolution,
     wire |-> wire, response |-> response]

\* The event loop continues with the invocation whose locals are inv.
Resume(inv) ==
    /\ tool' = inv.tool
    /\ args' = inv.args
    /\ pc' = inv.pc
    /\ queue' = inv.queue
    /\ seenNormalized' = inv.seenNormalized
    /\ attempts' = inv.attempts
    /\ fallbackCandidatesQueued' = inv.fallbackCandidatesQueued
    /\ current' = inv.current
    /\ fallback' = inv.fallback
    /\ resolution' = inv.resolution
    /\ wire' = inv.wire
    /\ response' = inv.response

\* The server is started in a repository of the configured host.
PairGitInfo ==
    [kind |-> "info", isGitlabProject |-> TRUE,
     projectId |-> encodeURIComponent(Str_gp), projectPath |-> Str_gp,
     remoteHost |-> "gitlab.com"]

PairInit ==
    /\ TransportIdle
    /\ GitIdle
    /\ ApiClientIdle
    /\ FnIdle
    /\ apiHost = "gitlab.com"
    /\ gitInfo = PairGitInfo
    /\ tool = "none"
    /\ args = NoArgs
    /\ pc = "idle"
    /\ queue = <<>>
    /\ seenNormalized = {}
    /\ attempts = <<>>
    /\ fallbackCandidatesQueued = FALSE
    /\ current = NoCandidate
    /\ fallback = NoFallback
    /\ resolution = NoResolution
    /\ wire = <<>>
    /\ response = NoResponse
    /\ mode = "pair"
    /\ other = IdleInvocation
    /\ recorded = IdleInvocation
    /\ calls = [i \in Invocations |-> "idle"]

\* Arguments of the two invocations: with and without a project, with and
\* without a working directory.
PairToolArgs ==
    {[projectId |-> p, mergeRequestIid |-> <<"4">>,
      sourceBranch |-> <<"f", "/", "x">>] : p \in {Undef, <<"7">>}}
    \cup
    {[projectId |-> p, mergeRequestIid |-> <<"4">>,
      sourceBranch |-> <<"f", "/", "x">>, workingDirectory |-> d] :
        p \in {Undef, <<"7">>}, d \in {"/work/repo"}}

PairSearchOutcomes ==
    {out \in SearchOutcomes :
        \/ out.kind = "ok" /\ Len(out.data) <= 1
        \/ out.kind = "http" /\ out.status = 404}

PairVerifyOutcomes(id) ==
    {out \in VerifyOutcomes(id) : out.kind = "ok" \/ out.status = 404}

PairMrOutcomes == {out \in MrOutcomes : out.kind = "ok" \/ out.status = 500}

\* The event loop runs the continuation of the other invocation: both are
\* at an await, not started or finished.
Switch ==
    /\ mode = "pair"
    /\ Resume(other)
    /\ other' = Locals
    /\ UNCHANGED <<apiHost, gitInfo, gitVars, apiClientVars, fnVars, mode,
                   recorded, calls, transportVars>>

\* The invocation that is running is set aside with the answers it was
\* given so far, and the server is started afresh to run it alone (other
\* keeps what the second invocation had done by then).
RunAlone ==
    /\ mode = "pair"
    /\ tool # "none"
    /\ mode' = "replay"
    /\ recorded' = Locals
    /\ Resume(IdleInvocation)
    /\ cwd' = StartDir
    /\ gitCalls' = <<>>
    /\ UNCHANGED <<apiHost, gitInfo, apiClientVars, fnVars, other, calls,
                   transportVars>>

\* Run alone, the invocation is called with the same arguments.
CallAgain ==
    /\ mode = "replay"
    /\ CallTool(recorded.tool, recorded.args)

\* Run alone, the request that is pending gets the answer the recorded
\* invocation was given to its request of the same position.
AnswerAgain ==
    /\ mode = "replay"
    /\ wire # <<>>
    /\ Len(wire) <= Len(recorded.wire)
    /\ recorded.wire[Len(wire)].outcome # Pending
    /\ LET out == recorded.wire[Len(wire)].outcome
       IN  \/ SearchReply(out)
           \/ VerifyReply(out)
           \/ MergeRequestReply(out)

PairNext ==
    \/ mode = "pair" /\ \E name \in Tools, a \in PairToolArgs : CallTool(name, a)
    \/ mode = "pair" /\ \E out \in PairSearchOutcomes : SearchReply(out)
    \/ /\ mode = "pair"
       /\ \E out \in PairVerifyOutcomes(current.normalizedProjectId) :
              VerifyReply(out)
    \/ mode = "pair" /\ \E out \in PairMrOutcomes : MergeRequestReply(out)
    \/ Switch
    \/ RunAlone
    \/ CallAgain
    \/ AnswerAgain

PairSpec == PairInit /\ [][PairNext]_vars

(***************************************************************************)
(* CodeAnalyzer.calculateMaintainabilityIndex                              *)
(***************************************************************************)
\* Math.min
Min(a, b) == IF a <= b THEN a ELSE b

\* code.split('\n').length
LineCount(code) ==
    Cardinality({i \in DOMAIN code : code[i] = "LF"}) + 1

\* (code.match(/\/\/|\/\*|\*\/|#/g) || []).length: the matches are taken
\* from left to right and do not overlap.
RECURSIVE CommentMarks(_, _)
CommentMarks(code, from) ==
    IF from > Len(code) THEN 0
    ELSE IF code[from] = "#" THEN 1 + CommentMarks(code, from + 1)
    ELSE IF /\ from < Len(code)
            /\ <<code[from], code[from + 1]>> \in
                   {<<"/", "/">>, <<"/", "*">>, <<"*", "/">>}
    THEN 1 + CommentMarks(code, from + 2)
    ELSE CommentMarks(code, from + 1)

\* Math.round of the fraction numerator / denominator (denominator > 0):
\* the nearest integer, the upper one of two that are equally near.
RoundFraction(numerator, denominator) ==
    (2 * numerator + denominator) \div (2 * denominator)

\* The score over the denominator 10 * lines, so that lines / 10 and
\* comments / lines are exact.
ScoreNumerator(lines, comments, issueCount) ==
    100 * 10 * lines
        - Min(lines * lines, 30 * 10 * lines)
        - Min(issueCount * 2, 40) * 10 * lines
        + Min(comments * 20 * 10, 20 * 10 * lines)

MaintainabilityOf(lines, comments, issueCount) ==
    LET rounded == RoundFraction(ScoreNumerator(lines, comments, issueCount),
                                 10 * lines)
    IN  IF rounded < 0 THEN 0 ELSE rounded

calculateMaintainabilityIndex(code, issueCount) ==
    MaintainabilityOf(LineCount(code), CommentMarks(code, 1), issueCount)

(***************************************************************************)
(* SafeStdioServerTransport: handleData, processReadBuffer and close       *)
(***************************************************************************)
\* Bytes on stdin: the newline, the carriage return, the blank, the text
\* of a complete JSON-RPC message (m), the JSON number 1, a character that
\* starts no JSON value (x), and the two bytes that encode U+00E9.
Bytes == {"LF", "CR", " ", "m", "1", "x", "C3", "A9"}

\* Longest input stream followed.
MaxStream == 3

\* A message, two keep-alive lines and a message that ends with CR LF;
\* a line that is no JSON, a JSON value that is no message and a message;
\* a line with a two-byte character, and a message that is not terminated.
Stream_keep_alive == <<"m", "LF", " ", "CR", "LF", "LF", "m", "CR", "LF">>
Stream_errors == <<"x", "LF", "1", "LF", "m", "LF">>
Stream_utf8 == <<"x", "C3", "A9", "LF", "m">>

Streams ==
    UNION {[1..n -> Bytes] : n \in 0..MaxStream}
        \cup {Stream_keep_alive, Stream_errors, Stream_utf8}

\* Latest callback that may call close().
MaxCloseAt == 2

\* Buffer.toString('utf8', ...): a lead byte with its continuation byte is
\* one character, a lead or continuation byte alone is U+FFFD.
RECURSIVE Utf8Decode(_)
Utf8Decode(bytes) ==
    IF bytes = <<>> THEN <<>>
    ELSE IF Len(bytes) >= 2 /\ bytes[1] = "C3" /\ bytes[2] = "A9"
    THEN <<"U+00E9">> \o Utf8Decode(SubSeq(bytes, 3, Len(bytes)))
    ELSE IF bytes[1] \in {"C3", "A9"}
    THEN <<"U+FFFD">> \o Utf8Decode(Tail(bytes))
    ELSE <<bytes[1]>> \o Utf8Decode(Tail(bytes))

\* .replace(/\r$/, '')
StripCarriageReturn(text) ==
    IF text # <<>> /\ text[Len(text)] = "CR"
    THEN SubSeq(text, 1, Len(text) - 1)
    ELSE text

\* The characters that String.prototype.trim removes and that JSON.parse
\* allows around a value.
WhiteSpace == {" ", "CR"}

\* rawLine.trim() === ''
IsBlankLine(rawLine) == \A i \in DOMAIN rawLine : rawLine[i] \in WhiteSpace

\* The text of rawLine without the white space around it.
JsonText(rawLine) ==
    LET inked == {i \in DOMAIN rawLine : rawLine[i] \notin WhiteSpace}
    IN  IF inked = {} THEN <<>>
        ELSE SubSeq(rawLine,
                    CHOOSE i \in inked : \A j \in inked : i <= j,
                    CHOOSE i \in inked : \A j \in inked : j <= i)

\* The try block for a line whose JSON text is text: the message goes to
\* onmessage; JSON.parse throws a SyntaxError, JSONRPCMessageSchema.parse a
\* ZodError, and the catch block hands the error (it tells the line) to
\* onerror.
CallbackFor(rawLine, text) ==
    IF text = <<"m">>
    THEN [callback |-> "onmessage", error |-> "none", value |-> text]
    ELSE IF text # <<>> /\ \A i \in DOMAIN text : text[i] = "1"
    THEN [callback |-> "onerror", error |-> "ZodError", value |-> rawLine]
    ELSE [callback |-> "onerror", error |-> "SyntaxError", value |-> rawLine]

ParseLine(rawLine) == CallbackFor(rawLine, JsonText(rawLine))

\* Variant: handleData keeps the chunk only (this.buffer = chunk).
Concat_ChunkOnly(buf, chunk) == chunk

\* handleData: this.buffer ? Buffer.concat([this.buffer, chunk]) : chunk
Concat(buf, chunk) == IF buf = Undef THEN chunk ELSE buf \o chunk

\* Variant: a blank line is handed to the try block like any other line.
SkipLine_Never(rawLine) == FALSE

\* The test of the keep-alive lines: `continue`.
SkipLine(rawLine) == IsBlankLine(rawLine)

\* The while loop of processReadBuffer on buffer buf, after the callbacks
\* cbs; the callback number `at` calls close(), which sets this.buffer to
\* undefined, and the next this.buffer.indexOf throws a TypeError.
RECURSIVE ReadLoop(_, _, _)

AfterCallback(rest, cbs, at) ==
    IF Len(cbs) = at THEN ReadLoop(Undef, cbs, at) ELSE ReadLoop(rest, cbs, at)

HandleLine(rawLine, rest, cbs, at) ==
    IF SkipLine(rawLine)
    THEN ReadLoop(rest, cbs, at)
    ELSE AfterCallback(rest, Append(cbs, ParseLine(rawLine)), at)

TakeLine(buf, newlineIndex, cbs, at) ==
    HandleLine(StripCarriageReturn(
                   Utf8Decode(SubSeq(buf, 1, newlineIndex - 1))),
               SubSeq(buf, newlineIndex + 1, Len(buf)), cbs, at)

ReadLoop(buf, cbs, at) ==
    IF buf = Undef
    THEN [buffer |-> Undef, callbacks |-> cbs, closed |-> TRUE,
          threw |-> TRUE]
    ELSE IF FirstOf(buf, {"LF"}, 1) > Len(buf)
    THEN [buffer |-> buf, callbacks |-> cbs, closed |-> FALSE,
          threw |-> FALSE]
    ELSE TakeLine(buf, FirstOf(buf, {"LF"}, 1), cbs, at)

processReadBuffer(buf, cbs, at) == ReadLoop(buf, cbs, at)

TransportInit ==
    /\ ResolverIdle
    /\ ServerIdle
    /\ GitIdle
    /\ ApiClientIdle
    /\ FnIdle
    /\ stdin \in Streams
    /\ delivered = <<>>
    /\ buffer = Undef
    /\ callbacks = <<>>
    /\ transport = "started"
    /\ thrown = FALSE
    /\ closeAt \in 0..MaxCloseAt

\* stdin emits the next k bytes in one data event: handleData and, inside
\* it, processReadBuffer with every callback it makes.
HandleData(k) ==
    /\ transport = "started"
    /\ k \in 1..Len(stdin)
    /\ LET done == processReadBuffer(Concat(buffer, SubSeq(stdin, 1, k)),
                                     callbacks, closeAt)
       IN  /\ buffer' = done.buffer
           /\ callbacks' = done.callbacks
           /\ transport' = IF done.closed THEN "closed" ELSE transport
           /\ thrown' = done.threw
    /\ stdin' = SubSeq(stdin, k + 1, Len(stdin))
    /\ delivered' = Append(delivered, SubSeq(stdin, 1, k))
    /\ UNCHANGED <<closeAt, resolverVars, gitVars, apiClientVars, fnVars,
                   serverVars>>

\* close() between two data events: the listeners are removed and the
\* buffer is dropped.
Close ==
    /\ transport = "started"
    /\ transport' = "closed"
    /\ buffer' = Undef
    /\ UNCHANGED <<stdin, delivered, callbacks, thrown, closeAt, resolverVars,
                   gitVars, apiClientVars, fnVars, serverVars>>

TransportNext ==
    \/ \E k \in 1..Len(stdin) : HandleData(k)
    \/ Close

TransportSpec == TransportInit /\ [][TransportNext]_vars

(***************************************************************************)
(* makeApiRequest called by tool invocations that run at the same time     *)
(***************************************************************************)
\* The documentation's limit on concurrent API requests.
ConcurrencyLimit == 5

\* The calls whose HTTP request has been sent and is not answered yet.
InFlight == {i \in Invocations : calls[i] = "in_flight"}

ConcInit ==
    /\ ResolverIdle
    /\ TransportIdle
    /\ GitIdle
    /\ ApiClientIdle
    /\ FnIdle
    /\ ServerIdle

\* Invocation i calls makeApiRequest: requestWithRateLimit and request hand
\* the request to axios at once, whatever the other invocations wait for.
SendRequest(i) ==
    /\ calls[i] = "idle"
    /\ calls' = [calls EXCEPT ![i] = "in_flight"]
    /\ UNCHANGED <<resolverVars, gitVars, apiClientVars, fnVars, mode, other,
                   recorded, transportVars>>

\* The request of invocation i is answered, or fails.
ReceiveResponse(i) ==
    /\ calls[i] = "in_flight"
    /\ calls' = [calls EXCEPT ![i] = "done"]
    /\ UNCHANGED <<resolverVars, gitVars, apiClientVars, fnVars, mode, other,
                   recorded, transportVars>>

ConcNext ==
    \/ \E i \in Invocations : SendRequest(i)
    \/ \E i \in Invocations : ReceiveResponse(i)

ConcSpec == ConcInit /\ [][ConcNext]_vars

(***************************************************************************)
(* executeGitCommand called from any working directory                     *)
(***************************************************************************)
\* Longest sequence of executeGitCommand invocations followed.
MaxGitCalls == 2

GitInit ==
    /\ ResolverIdle
    /\ TransportIdle
    /\ ServerIdle
    /\ ApiClientIdle
    /\ FnIdle
    /\ cwd \in ExistingDirs
    /\ gitCalls = <<>>

\* One synchronous run of executeGitCommand(command, workingDirectory):
\* the git command inside succeeds or throws.
ExecuteGitCommand(command, workingDirectory, gitFails) ==
    /\ Len(gitCalls) < MaxGitCalls
    /\ cwd' = executeGitCommand(command, workingDirectory, cwd, gitFails).cwd
    /\ gitCalls' = Append(gitCalls,
                          GitCall(command, workingDirectory, cwd, gitFails))
    /\ UNCHANGED <<resolverVars, apiClientVars, fnVars, serverVars,
                   transportVars>>

GitNext ==
    \E command \in GitCommands, workingDirectory \in WorkingDirectories,
       gitFails \in BOOLEAN :
        ExecuteGitCommand(command, workingDirectory, gitFails)

GitSpec == GitInit /\ [][GitNext]_vars

(***************************************************************************)
(* The pure functions, applied to inputs drawn from bounded sets           *)
(***************************************************************************)
\* Longest generated string.
MaxLen == 3

Strings(alphabet, n) == UNION {[1..k -> alphabet] : k \in 0..n}

\* Identifiers handed to normalizeProjectId: undefined, every string of
\* a digit, a letter, a slash, a percent sign, a blank and a mark, and a
\* path with blanks around it.
IdentifierAlphabet == {"7", "g", "/", "%", " ", "!"}
Str_padded_path == <<" ", "g", "/", "g", " ">>
IdentifierInputs ==
    {Undef, Str_padded_path} \cup Strings(IdentifierAlphabet, MaxLen)

\* Source branches handed to generateMRTitle: a known prefix or none,
\* followed by a short rest, and the branches of the documentation.
Str_user_login == <<"u", "s", "e", "r", "-", "l", "o", "g", "i", "n">>
Str_fix_password_reset == <<"f", "i", "x", "-", "p", "a", "s", "s", "w", "o", "r", "d", "-", "r", "e", "s", "e", "t">>
Str_update_readme == <<"u", "p", "d", "a", "t", "e", "-", "r", "e", "a", "d", "m", "e">>
Str_chore_cleanup == <<"c", "h", "o", "r", "e", "/", "c", "l", "e", "a", "n", "u", "p">>

BranchAlphabet == {"a", "B", "-", "_", "/"}
BranchPrefixes ==
    {<<>>, Str_feature, Str_feat, Str_bugfix, Str_hotfix, Str_docs,
     Str_refactor}
BranchInputs ==
    {prefix \o rest : prefix \in BranchPrefixes,
                      rest \in Strings(BranchAlphabet, MaxLen)}
    \cup {Str_feature \o Str_user_login,
          Str_bugfix \o Str_fix_password_reset,
          Str_docs \o Str_update_readme,
          Str_chore_cleanup}

\* Identifiers and result lists handed to the ranking of the project
\* search: projects that match by full path, by path, by name only, in
\* another letter case, not at all, and one without path_with_namespace.
Str_gt == <<"g", "/", "t">>
Str_ht == <<"h", "/", "t">>

RankIdentifiers == {Str_gt, Str_ht, <<"t">>}

RankProjects ==
    {[path_with_namespace |-> <<"g", "/", "o">>, path |-> <<"o">>,
      name |-> <<"o">>],
     [path_with_namespace |-> Str_gt, path |-> <<"t">>, name |-> <<"t">>],
     [path_with_namespace |-> <<"g", "/", "n">>, path |-> <<"n">>,
      name |-> <<"t">>],
     [path_with_namespace |-> <<"G", "/", "T">>, path |-> <<"T">>,
      name |-> <<"T">>],
     [path_with_namespace |-> Undef, path |-> <<"t">>, name |-> <<"t">>]}

RankLists == UNION {[1..n -> RankProjects] : n \in 0..MaxResults}

\* Arguments handed to the tools: the project and the merge request under
\* each name the dispatch surface lists, as strings and as numbers, and
\* references to a project or merge request (HTTPS and SSH URLs, with and
\* without the merge request, a quoted URL and a bare path) under the
\* project names and under the URL names.
ProjectIdNames ==
    {"projectId", "project_id", "project", "projectPath", "project_path",
     "repository", "repository_path"}

MergeRequestIdNames ==
    {"pullRequestNumber", "pull_request_number", "mergeRequestIid",
     "merge_request_iid", "mergeRequestId", "merge_request_id", "iid"}

UrlNames == {"mergeRequestUrl", "url", "pr_url", "projectUrl", "gitlab_url"}

Url_mr ==
    <<"h", "t", "t", "p", "s", ":", "/", "/", "h", "/", "g", "/", "p", "/",
      "-", "/", "m", "e", "r", "g", "e", "_", "r", "e", "q", "u", "e", "s",
      "t", "s", "/", "4">>
Url_mr_plain ==
    <<"h", "t", "t", "p", "s", ":", "/", "/", "h", "/", "g", "/", "p", "/",
      "m", "e", "r", "g", "e", "_", "r", "e", "q", "u", "e", "s", "t", "s",
      "/", "4">>
Url_mr_diffs ==
    <<"h", "t", "t", "p", "s", ":", "/", "/", "h", "/", "g", "/", "p", "/",
      "-", "/", "m", "e", "r", "g", "e", "_", "r", "e", "q", "u", "e", "s",
      "t", "s", "/", "4", "/", "d", "i", "f", "f", "s">>
Url_project ==
    <<"h", "t", "t", "p", "s", ":", "/", "/", "h", "/", "g", "/", "p">>
Url_project_git ==
    <<"h", "t", "t", "p", "s", ":", "/", "/", "h", "/", "g", "/", "p", ".",
      "g", "i", "t">>
Url_ssh_git ==
    <<"g", "i", "t", "@", "h", ":", "g", "/", "p", ".", "g", "i", "t">>
Url_ssh ==
    <<"g", "i", "t", "@", "h", ":", "g", "/", "p">>
Url_quoted ==
    <<"'", "h", "t", "t", "p", "s", ":", "/", "/", "h", "/", "g", "/", "p",
      "'">>
Path_mr ==
    <<"g", "/", "p", "/", "-", "/", "m", "e", "r", "g", "e", "_", "r", "e",
      "q", "u", "e", "s", "t", "s", "/", "4">>

ReferenceInputs ==
    {Url_mr, Url_mr_plain, Url_mr_diffs, Url_project,
     Url_project_git, Url_ssh_git, Url_ssh, Url_quoted,
     Path_mr}

ProjectIdValues == {Str_gp, <<"7">>, Number(7)}

MergeRequestIdValues == {<<"4">>, Number(42)}

ArgumentInputs ==
    {<<>>}
    \cup {pk :> pv : pk \in ProjectIdNames, pv \in ProjectIdValues}
    \cup {pk :> pv @@ ik :> iv :
             pk \in ProjectIdNames, pv \in ProjectIdValues,
             ik \in MergeRequestIdNames, iv \in MergeRequestIdValues}
    \cup {pk :> ref : pk \in ProjectIdNames, ref \in ReferenceInputs}
    \cup {uk :> ref : uk \in UrlNames, ref \in ReferenceInputs}

\* Contexts and arguments handed to enhanceGitlabMergeRequestContext: a
\* project and an IID absent, empty or given, the project also given as the
\* URL of a merge request; a merge-request URL and a project URL absent or
\* naming other projects and another IID, or naming nothing.
Url_other_mr ==
    <<"h", "t", "t", "p", "s", ":", "/", "/", "h", "/", "c", "/", "d", "/",
      "-", "/", "m", "e", "r", "g", "e", "_", "r", "e", "q", "u", "e", "s",
      "t", "s", "/", "5">>
Url_other_project ==
    <<"h", "t", "t", "p", "s", ":", "/", "/", "h", "/", "e", "/", "f">>

ContextProjectIds == {Undef, Null, <<>>, <<"a", "/", "b">>, Url_mr}

ContextMergeRequestIids == {Undef, <<>>, <<"9">>}

EnhanceArguments ==
    {<<>>}
    \cup {"mr_url" :> m : m \in {Url_other_mr, Url_other_project, <<" ">>}}
    \cup {"repoUrl" :> u : u \in {Url_other_project, Url_mr}}
    \cup {"mr_url" :> m @@ "repoUrl" :> u :
             m \in {Url_other_mr, Url_project, <<" ">>},
             u \in {Url_other_project, Url_mr}}

IdentityTools ==
    {"fetch_pull_request", "get_merge_request", "create_merge_request"}

\* Arguments handed to createMergeRequest for the body of its POST: a
\* source branch with blanks around it or a blank one, and every option
\* absent or given as a string, a number, a boolean or a list.
Str_padded_branch == <<" ", "f", "/", "x", " ">>

BodySourceBranches == {Str_padded_branch, <<" ">>, Str_bugfix \o <<"a">>}

OptionalTexts == {Undef, <<>>, <<"T">>}

AssigneeIdInputs == {Undef, Number(0), <<"1", "2">>, <<"a">>}

ReviewerIdsInputs ==
    {Undef, Array(<<>>), Array(<<Number(3), <<"4">>, <<"a">>>>),
     <<"3", ",", " ", "4">>, <<"a">>, Number(5)}

FlagInputs ==
    {Undef, Boolean(TRUE), Boolean(FALSE), Number(1), <<"Y", "e", "s">>,
     <<"n", "o">>, <<"a">>}

TargetBranchInputs == {Undef, <<"d", "e", "v">>}

BodyArguments ==
    {[sourceBranch |-> sb, target_branch |-> tb, title |-> ti,
      description |-> de, assignee_id |-> asg, reviewers |-> rv,
      deleteSourceBranch |-> del, squash |-> sq] :
        sb \in BodySourceBranches, tb \in TargetBranchInputs,
        ti \in OptionalTexts, de \in OptionalTexts,
        asg \in AssigneeIdInputs, rv \in ReviewerIdsInputs,
        del \in FlagInputs, sq \in {Undef, Boolean(TRUE), <<"o", "f", "f">>}}

\* Code texts: lines, comment markers and other characters; issue counts
\* below and above the cap of the penalty.
CodeAlphabet == {"LF", "/", "*", "#", "a"}

CodeTexts == UNION {[1..n -> CodeAlphabet] : n \in 0..MaxLen}

IssueCounts == {0, 1, 19, 25}

(***************************************************************************)
(* get_server_config: ApiClient.getApiInfo and getServerConfig            *)
(***************************************************************************)
Str_javascript ==
    <<"j", "a", "v", "a", "s", "c", "r", "i", "p", "t">>
Str_typescript ==
    <<"t", "y", "p", "e", "s", "c", "r", "i", "p", "t">>
Str_python ==
    <<"p", "y", "t", "h", "o", "n">>
Str_java ==
    <<"j", "a", "v", "a">>
Str_go ==
    <<"g", "o">>
Str_version ==
    <<"1", ".", "0", ".", "1", "6">>
Str_healthy ==
    <<"h", "e", "a", "l", "t", "h", "y">>
Str_unhealthy ==
    <<"u", "n", "h", "e", "a", "l", "t", "h", "y">>
Url_github_api ==
    <<"h", "t", "t", "p", "s", ":", "/", "/", "a", "p", "i", ".", "g", "i",
      "t", "h", "u", "b", ".", "c", "o", "m">>
Url_gitlab_api ==
    <<"h", "t", "t", "p", "s", ":", "/", "/", "g", "i", "t", "l", "a", "b",
      ".", "c", "o", "m", "/", "a", "p", "i", "/", "v", "4">>

\* CodeAnalyzer.getSupportedLanguages: the keys of the rules, in the order
\* initializeRules set them.
getSupportedLanguages ==
    <<Str_javascript, Str_typescript, Str_python, Str_java, Str_go>>

\* new ApiClient(apiBaseUrl, apiToken, timeout, maxRetries)
ApiClientOf(config) ==
    [baseURL |-> config.apiBaseUrl, token |-> config.apiToken,
     timeout |-> config.timeout, maxRetries |-> config.maxRetries]

\* An object is the sequence of its properties, each a name and a value,
\* in the order JSON.stringify writes them.
\* Variant: the token is one of the properties.
getApiInfo_WithToken(client) ==
    <<<<"baseURL", client.baseURL>>,
      <<"token", client.token>>,
      <<"timeout", Number(client.timeout)>>,
      <<"maxRetries", Number(client.maxRetries)>>>>

\* ApiClient.getApiInfo
getApiInfo(client) ==
    <<<<"baseURL", client.baseURL>>,
      <<"hasToken", Boolean(client.token # <<>>)>>,
      <<"timeout", Number(client.timeout)>>,
      <<"maxRetries", Number(client.maxRetries)>>>>

\* getServerConfig once healthCheck has resolved to isHealthy: the one
\* text item of the response, the properties of safeConfig.
getServerConfig(config, isHealthy) ==
    LET apiInfo == getApiInfo(ApiClientOf(config))
        safeConfig ==
            apiInfo
            \o <<<<"supportedLanguages", Array(getSupportedLanguages)>>,
                 <<"healthStatus",
                   IF isHealthy THEN Str_healthy ELSE Str_unhealthy>>,
                 <<"version", Str_version>>>>
    IN  [content |-> <<[type |-> "text", text |-> safeConfig]>>]

\* Configurations of the server: no token or one of two tokens, two APIs,
\* two timeouts, retries or none.
ApiTokens == {<<>>, <<"s", "k", "1">>, <<"s", "k", "2">>}

ServerConfigs ==
    [apiBaseUrl : {Url_github_api, Url_gitlab_api},
     apiToken : ApiTokens,
     timeout : {30000, 5000},
     maxRetries : {3, 0}]

Functions ==
    {"normalizeProjectId", "generateMRTitle", "getProjectCandidateFromSearch",
     "IdentityArguments", "requestData", "calculateMaintainabilityIndex",
     "enhanceGitlabMergeRequestContext", "getServerConfig"}

FnArgs(name) ==
    CASE name = "normalizeProjectId" -> IdentifierInputs
      [] name = "generateMRTitle" -> BranchInputs
      [] name = "getProjectCandidateFromSearch" ->
             [projectIdentifier : RankIdentifiers, projects : RankLists]
      [] name = "IdentityArguments" ->
             [tool : IdentityTools, args : ArgumentInputs]
      [] name = "requestData" -> BodyArguments
      [] name = "calculateMaintainabilityIndex" ->
             [code : CodeTexts, issueCount : IssueCounts]
      [] name = "enhanceGitlabMergeRequestContext" ->
             [args : EnhanceArguments,
              context : [projectId : ContextProjectIds,
                         mergeRequestIid : ContextMergeRequestIids]]
      [] name = "getServerConfig" ->
             [config : ServerConfigs, isHealthy : BOOLEAN]

FnInit ==
    /\ ResolverIdle
    /\ TransportIdle
    /\ ServerIdle
    /\ GitIdle
    /\ ApiClientIdle
    /\ fn \in Functions
    /\ fnArg \in FnArgs(fn)
    /\ fnResults = <<>>

\* normalizeProjectId is applied to the identifier, and once more to what
\* it returned (a null result is not an identifier).
ApplyNormalizeProjectId ==
    /\ fn = "normalizeProjectId"
    /\ Len(fnResults) < 2
    /\ fnResults # <<>> => fnResults[Len(fnResults)] # Null
    /\ fnResults' =
           Append(fnResults,
                  normalizeProjectId(IF fnResults = <<>> THEN fnArg
                                     ELSE fnResults[Len(fnResults)]))
    /\ UNCHANGED <<fn, fnArg, resolverVars, gitVars, apiClientVars,
                   serverVars, transportVars>>

\* generateMRTitle is applied to the source branch.
ApplyGenerateMRTitle ==
    /\ fn = "generateMRTitle"
    /\ fnResults = <<>>
    /\ fnResults' = <<generateMRTitle(fnArg)>>
    /\ UNCHANGED <<fn, fnArg, resolverVars, gitVars, apiClientVars,
                   serverVars, transportVars>>

\* getProjectCandidateFromSearch ranks the projects of a 2xx answer.
ApplyGetProjectCandidateFromSearch ==
    /\ fn = "getProjectCandidateFromSearch"
    /\ fnResults = <<>>
    /\ fnResults' =
           <<getProjectCandidateFromSearch(
                 fnArg.projectIdentifier,
                 makeApiRequest([kind |-> "ok", status |-> 200,
                                 data |-> fnArg.projects]))>>
    /\ UNCHANGED <<fn, fnArg, resolverVars, gitVars, apiClientVars,
                   serverVars, transportVars>>

\* A tool takes the project and the merge request from its arguments.
ApplyIdentityArguments ==
    /\ fn = "IdentityArguments"
    /\ fnResults = <<>>
    /\ fnResults' = <<IdentityArguments(fnArg.tool, fnArg.args)>>
    /\ UNCHANGED <<fn, fnArg, resolverVars, gitVars, apiClientVars,
                   serverVars, transportVars>>

\* createMergeRequest builds the body of its POST, unless the source
\* branch is missing.
ApplyRequestData ==
    /\ fn = "requestData"
    /\ fnResults = <<>>
    /\ fnResults' =
           <<IF MissingSourceBranch(SourceBranchArgument(fnArg))
             THEN NoRequestData
             ELSE requestData(fnArg)>>
    /\ UNCHANGED <<fn, fnArg, resolverVars, gitVars, apiClientVars,
                   serverVars, transportVars>>

\* analyzeCode computes the maintainability index of the code.
ApplyCalculateMaintainabilityIndex ==
    /\ fn = "calculateMaintainabilityIndex"
    /\ fnResults = <<>>
    /\ fnResults' =
           <<calculateMaintainabilityIndex(fnArg.code, fnArg.issueCount)>>
    /\ UNCHANGED <<fn, fnArg, resolverVars, gitVars, apiClientVars,
                   serverVars, transportVars>>

\* A tool completes the project and the merge request it was given from
\* the URLs among its arguments.
ApplyEnhanceGitlabMergeRequestContext ==
    /\ fn = "enhanceGitlabMergeRequestContext"
    /\ fnResults = <<>>
    /\ fnResults' =
           <<enhanceGitlabMergeRequestContext(fnArg.args, fnArg.context)>>
    /\ UNCHANGED <<fn, fnArg, resolverVars, gitVars, apiClientVars,
                   serverVars, transportVars>>

\* get_server_config is answered once the health check has resolved.
ApplyGetServerConfig ==
    /\ fn = "getServerConfig"
    /\ fnResults = <<>>
    /\ fnResults' = <<getServerConfig(fnArg.config, fnArg.isHealthy)>>
    /\ UNCHANGED <<fn, fnArg, resolverVars, gitVars, apiClientVars,
                   serverVars, transportVars>>

FnNext ==
    \/ ApplyGetServerConfig
    \/ ApplyEnhanceGitlabMergeRequestContext
    \/ ApplyCalculateMaintainabilityIndex
    \/ ApplyNormalizeProjectId
    \/ ApplyGenerateMRTitle
    \/ ApplyGetProjectCandidateFromSearch
    \/ ApplyIdentityArguments
    \/ ApplyRequestData

FnSpec == FnInit /\ [][FnNext]_vars

(***************************************************************************)
(* ApiClient: request, executeWithRetry, requestWithRateLimit              *)
(***************************************************************************)
\* Largest maxRetries the client is configured with.
MaxRetries == 3

\* Math.random() * 2 - 1 of calculateDelay, in percent: the two ends and
\* the middle of [-1, 1).
JitterChoices == {-100, 0, 99}

\* Answers to one axios(config): a response, an HTTP error status (a 403
\* may carry x-ratelimit-reset: 60 s ahead, 5 s ago, 2 h ahead), no
\* response at all, or an error that is not an AxiosError.
AxiosOutcomes ==
    {[kind |-> "ok", status |-> 200, data |-> <<>>, reset |-> NoHeader,
      code |-> NoCode]}
    \cup {[kind |-> "http", status |-> st, data |-> <<>>, reset |-> NoHeader,
           code |-> NoCode] : st \in {400, 403, 404, 408, 429, 500, 503}}
    \cup {[kind |-> "http", status |-> 403, data |-> <<>>, reset |-> <<r>>,
           code |-> NoCode] : r \in {60, -5, 7200}}
    \cup {[kind |-> "net", status |-> NoStatus, data |-> <<>>,
           reset |-> NoHeader, code |-> NoCode]}
    \cup {[kind |-> "raw", status |-> NoStatus, data |-> <<>>,
           reset |-> NoHeader, code |-> c] : c \in {"ECONNRESET", "EACCES"}}

\* Variant: every error is retried.
shouldRetry_Always(error) == TRUE

\* ApiClient.shouldRetry
shouldRetry(error) ==
    IF isAxiosError(error)
    THEN \/ error.responseStatus = NoStatus
         \/ error.responseStatus >= 500
         \/ error.responseStatus = 408
         \/ error.responseStatus = 429
    ELSE error.code \in {"ECONNRESET", "ENOTFOUND", "ECONNREFUSED",
                         "ETIMEDOUT"}

RECURSIVE Pow2(_)
Pow2(n) == IF n <= 0 THEN 1 ELSE 2 * Pow2(n - 1)

\* ApiClient.calculateDelay, in ms, for a jitter factor given in percent:
\* Math.round(delay + delay * 0.25 * jitter).
calculateDelay(att, jitterPercent) ==
    LET delay == Min(1000 * Pow2(att - 1), 10000)
    IN  (2 * (delay * 10000 + delay * 25 * jitterPercent) + 10000)
            \div 20000

\* requestWithRateLimit: waitTime of an error, in ms (resetTime - Date.now()).
WaitTime(error) == error.resetHeader[1] * 1000

\* requestWithRateLimit, the test of its catch block.
RateLimitWait(error) ==
    /\ isAxiosError(error)
    /\ error.responseStatus = 403
    /\ error.resetHeader # NoHeader
    /\ WaitTime(error) > 0
    /\ WaitTime(error) < 3600000

\* NaN, which parseInt returns for a string that starts with no number:
\* a value that no comparison holds for, kept apart from every count.
NaN == -1000000

\* a <= b of two numbers
AtMost(a, b) == a # NaN /\ b # NaN /\ a <= b

\* parseInt of an option: the digits at its start, after an optional minus
\* sign, or NaN when there are none.
parseInt(str) ==
    LET negative == str # <<>> /\ str[1] = "-"
        unsigned == IF negative THEN Tail(str) ELSE str
        stop == CHOOSE n \in 0..Len(unsigned) :
                    /\ \A i \in 1..n : IsDigit(unsigned[i])
                    /\ n < Len(unsigned) => ~IsDigit(unsigned[n + 1])
        digits == SubSeq(unsigned, 1, stop)
    IN  IF digits = <<>> THEN NaN
        ELSE IF negative THEN 0 - DecimalValue(digits)
        ELSE DecimalValue(digits)

\* Values of --max-retries (or MAX_RETRIES) besides the counts from 1 on:
\* zero, a negative count, a word, a count followed by a unit.
RetryOptions == {<<"0">>, <<"-", "1">>, <<"x">>, <<"2", "x">>}

\* maxRetries as main() and defaultConfig hand it to the ApiClient.
ConfiguredRetries ==
    (1..MaxRetries) \cup {parseInt(option) : option \in RetryOptions}

ApiInit ==
    /\ ResolverIdle
    /\ TransportIdle
    /\ ServerIdle
    /\ GitIdle
    /\ FnIdle
    /\ maxRetries \in ConfiguredRetries
    /\ apiEntry = "none"
    /\ apiPc = "idle"
    /\ requestCall = 0
    /\ attempt = 0
    /\ lastError = NoError
    /\ axiosLog = <<>>
    /\ sleepLog = <<>>

\* executeWithRetry throws error out of this.request.  A caller of request
\* gets it; requestWithRateLimit catches it from its first call and either
\* sleeps until the reset or rethrows it.
ThrowFromRequest(error) ==
    IF /\ apiEntry = "requestWithRateLimit"
       /\ requestCall = 1
       /\ RateLimitWait(error)
    THEN /\ apiPc' = "rate_sleep"
         /\ sleepLog' = Append(sleepLog,
                               [kind |-> "ratelimit",
                                ms |-> WaitTime(error) + 1000,
                                after |-> Len(axiosLog')])
    ELSE /\ apiPc' = "thrown"
         /\ sleepLog' = sleepLog

\* this.request is entered: executeWithRetry starts its loop with attempt 1
\* and calls axios(config), or throws at once when the loop does not run.
EnterRequest ==
    /\ attempt' = 1
    /\ IF AtMost(1, maxRetries)
       THEN /\ apiPc' = "axios_wait"
            /\ UNCHANGED <<lastError, sleepLog>>
       ELSE /\ lastError' = NoError
            /\ ThrowFromRequest(NoError)

\* A caller invokes request or requestWithRateLimit.
CallApi(entry) ==
    /\ apiPc = "idle"
    /\ apiEntry' = entry
    /\ requestCall' = 1
    /\ axiosLog' = axiosLog
    /\ EnterRequest
    /\ UNCHANGED <<maxRetries, resolverVars, gitVars, fnVars, serverVars,
                   transportVars>>

\* axios(config) of the current attempt settles with out.
AxiosReply(out, jitterPercent) ==
    /\ apiPc = "axios_wait"
    /\ axiosLog' = Append(axiosLog, out)
    /\ UNCHANGED <<maxRetries, apiEntry, requestCall, attempt, resolverVars,
                   gitVars, fnVars, serverVars, transportVars>>
    /\ LET res == request(out)
       IN  IF res.ok
           THEN /\ apiPc' = "returned"
                /\ UNCHANGED <<lastError, sleepLog>>
           ELSE /\ lastError' = res.error
                /\ IF attempt # maxRetries /\ shouldRetry(res.error)
                   THEN /\ apiPc' = "backoff_sleep"
                        /\ sleepLog' =
                               Append(sleepLog,
                                      [kind |-> "backoff",
                                       ms |-> calculateDelay(attempt,
                                                             jitterPercent),
                                       after |-> Len(axiosLog')])
                   ELSE ThrowFromRequest(res.error)

\* The timer of sleep() fires: executeWithRetry goes to its next attempt,
\* requestWithRateLimit calls this.request once more.
SleepResolved ==
    /\ apiPc \in {"backoff_sleep", "rate_sleep"}
    /\ UNCHANGED <<maxRetries, apiEntry, axiosLog, resolverVars, gitVars,
                   fnVars, serverVars, transportVars>>
    /\ IF apiPc = "backoff_sleep"
       THEN /\ attempt' = attempt + 1
            /\ apiPc' = "axios_wait"
            /\ UNCHANGED <<requestCall, lastError, sleepLog>>
       ELSE /\ requestCall' = 2
            /\ EnterRequest

ApiNext ==
    \/ \E entry \in {"request", "requestWithRateLimit"} : CallApi(entry)
    \/ \E out \in AxiosOutcomes, j \in JitterChoices : AxiosReply(out, j)
    \/ SleepResolved

ApiSpec == ApiInit /\ [][ApiNext]_vars

(***************************************************************************)
(* Vocabulary of the properties                                            *)
(***************************************************************************)
VerifyIdx == {i \in DOMAIN wire : wire[i].kind = "verify"}
SearchIdx == {i \in DOMAIN wire : wire[i].kind = "search"}
MrIdx == {i \in DOMAIN wire : wire[i].kind = "mr"}

Failed(i) == wire[i].outcome.kind \in {"http", "net"}
Verified(i) == wire[i].outcome.kind = "ok"

\* The git remote names a project and its host is the host of the API.
GitRemoteMatchesApi ==
    /\ gitInfo.kind = "info"
    /\ gitInfo.isGitlabProject
    /\ apiHost # NoHost
    /\ gitInfo.remoteHost = apiHost

\* The git remote names a project on a host other than the API's.
GitRemoteOnOtherHost ==
    /\ gitInfo.kind = "info"
    /\ gitInfo.isGitlabProject
    /\ apiHost # NoHost
    /\ gitInfo.remoteHost # BadHost
    /\ gitInfo.remoteHost # apiHost

TierRank(source) ==
    CASE source = "input" -> 1
      [] source = "git_remote" -> 2
      [] source = "search" -> 3
      [] OTHER -> 4

(***************************************************************************)
(* C1: candidates are verified one at a time, and the first candidate      *)
(* whose GET projects/{id} returns 2xx ends the resolution: the result is  *)
(* a success with that candidate's raw id, normalized id and source, its   *)
(* attempt record is the last and the only successful one, and no later    *)
(* candidate is sent.  When a direct input verifies, attempts has length 1 *)
(* and no git-remote candidate was sent.                                   *)
(***************************************************************************)
C1_FirstSuccessShortCircuit ==
    /\ Cardinality({i \in DOMAIN wire : wire[i].outcome.kind = "pending"}) <= 1
    /\ \A i \in VerifyIdx :
          Verified(i) =>
             /\ \A j \in VerifyIdx \cup SearchIdx : j <= i
             /\ resolution.outcome = "success"
             /\ resolution.normalizedProjectId = wire[i].id
             /\ resolution.source = wire[i].source
             /\ resolution.attempts = attempts
             /\ Len(attempts) = Cardinality(VerifyIdx)
             /\ attempts[Len(attempts)].success
             /\ attempts[Len(attempts)].candidate.normalizedProjectId
                    = wire[i].id
             /\ attempts[Len(attempts)].candidate.rawProjectId
                    = resolution.rawProjectId
             /\ attempts[Len(attempts)].candidate.source = resolution.source
             /\ \A k \in 1..(Len(attempts) - 1) : ~attempts[k].success
             /\ (wire[i].source = "input" =>
                    /\ Len(attempts) = 1
                    /\ \A j \in VerifyIdx : wire[j].source # "git_remote")

\* A direct input verified although a matching git remote was available.
C1_Witness ==
    /\ pc = "done"
    /\ resolution.outcome = "success"
    /\ resolution.source = "input"
    /\ GitRemoteMatchesApi
    /\ gitInfo.projectId # resolution.normalizedProjectId
    /\ Len(attempts) = 1

(***************************************************************************)
(* C2: when the direct input's verification gets HTTP 404 and a git remote *)
(* on the API host is present and verifies, the resolution succeeds with   *)
(* source git_remote and attempts holds exactly two records, the first     *)
(* with success=false and status=404.                                      *)
(***************************************************************************)
C2_NotFoundCascadesToGitRemote ==
    ( /\ resolution.outcome # "pending"
      /\ wire # <<>>
      /\ wire[1].kind = "verify"
      /\ wire[1].source = "input"
      /\ wire[1].outcome.kind = "http"
      /\ wire[1].outcome.status = 404
      /\ GitRemoteMatchesApi
      /\ gitInfo.projectId # wire[1].id )
    => /\ Len(attempts) >= 2
       /\ ~attempts[1].success
       /\ attempts[1].status = 404
       /\ attempts[2].candidate.source = "git_remote"
       /\ (attempts[2].success =>
              /\ resolution.outcome = "success"
              /\ resolution.source = "git_remote"
              /\ Len(attempts) = 2)

(***************************************************************************)
(* C3: when verification of the first candidate gets HTTP 401 (or 403 or   *)
(* 5xx), the resolution aborts at once: no request follows it, and the     *)
(* error surfaces to the caller with its status.                           *)
(***************************************************************************)
C3_FatalStatusAborts ==
    \A i \in VerifyIdx :
       ( /\ \A j \in VerifyIdx : i <= j
         /\ wire[i].outcome.kind = "http"
         /\ wire[i].outcome.status \in {401, 403, 500} )
       => /\ i = Len(wire)
          /\ pc = "done"
          /\ resolution.outcome = "thrown"
          /\ response.kind = "thrown"

(***************************************************************************)
(* C4: a resolution in which no candidate verifies is never thrown to the  *)
(* caller: the tool returns a payload with success:false, a message, a     *)
(* suggestions list and details holding the ordered attempts trail,        *)
(* providedProjectId and reason.                                           *)
(***************************************************************************)
C4_ResolutionFailureIsStructured ==
    ( /\ pc = "done"
      /\ response.kind \notin {"missing_iid", "missing_branch"}
      /\ \A i \in VerifyIdx : ~Verified(i) )
    => /\ response.kind = "resolution_error"
       /\ response.success = FALSE
       /\ response.message # ""
       /\ response.suggestions # <<>>
       /\ response.details.providedProjectId = args.projectId
       /\ response.details.reason = resolution.reason
       /\ Len(response.details.attempts) = Cardinality(VerifyIdx)
       /\ \A k \in DOMAIN response.details.attempts :
             \E i \in VerifyIdx :
                /\ Cardinality({j \in VerifyIdx : j <= i}) = k
                /\ response.details.attempts[k].normalizedProjectId = wire[i].id
                /\ response.details.attempts[k].source = wire[i].source

(***************************************************************************)
(* C5: when no candidate verifies, reason is invalid_format if a non-empty *)
(* identifier was supplied but failed normalization; otherwise not_found   *)
(* if at least one attempt got a 404; otherwise not_detected if attempts   *)
(* is empty.                                                               *)
(***************************************************************************)
C5_FailureReasonPriority ==
    resolution.outcome = "failure" =>
       IF Truthy(args.projectId) /\ normalizeProjectId(args.projectId) = Null
       THEN resolution.reason = "invalid_format"
       ELSE IF \E i \in VerifyIdx :
                  wire[i].outcome.kind = "http" /\ wire[i].outcome.status = 404
       THEN resolution.reason = "not_found"
       ELSE IF resolution.attempts = <<>>
       THEN resolution.reason = "not_detected"
       ELSE TRUE

(***************************************************************************)
(* C6: every result returned with success=false carries a reason among     *)
(* invalid_format, not_found, not_detected.                                *)
(***************************************************************************)
C6_FailureHasReason ==
    resolution.outcome = "failure" =>
       resolution.reason \in {"invalid_format", "not_found", "not_detected"}

(***************************************************************************)
(* C7: within one resolution no normalized project identifier is sent to   *)
(* GET projects/{id} more than once, and a candidate dropped as a          *)
(* duplicate leaves no attempt record.                                     *)
(***************************************************************************)
C7_NoIdentifierSentTwice ==
    /\ \A i, j \in VerifyIdx : i # j => wire[i].id # wire[j].id
    /\ \A k, l \in DOMAIN attempts :
          k # l => attempts[k].candidate.normalizedProjectId
                     # attempts[l].candidate.normalizedProjectId
    /\ Len(attempts) <= Cardinality(VerifyIdx)

\* The search proposed the project of the git remote, whose verification
\* had failed; the resolution ended after that single request.
C7_Witness ==
    /\ pc = "done"
    /\ resolution.outcome = "failure"
    /\ Cardinality(VerifyIdx) = 1
    /\ \E i \in SearchIdx, j \in VerifyIdx :
          /\ Verified(i)
          /\ wire[j].source = "git_remote"
          /\ Failed(j)
          /\ getProjectCandidateFromSearch(gitInfo.projectPath,
                 request(wire[i].outcome)).normalizedProjectId = wire[j].id

C9_SearchOnlyAfterGitRemoteFailed ==
    \A i \in SearchIdx :
       /\ \A j \in VerifyIdx : j < i => Failed(j)
       /\ (getProjectCandidateFromGit(gitInfo, apiHost) # NoCandidate =>
              \E j \in VerifyIdx :
                 j < i /\ wire[j].source = "git_remote" /\ Failed(j))

(***************************************************************************)
(* C9, amended: candidates are verified in the tier order input,           *)
(* git_remote, search, each only after every earlier one failed, and no    *)
(* fallback tier is generated while an input candidate is unverified; but  *)
(* the git_remote and search tiers are generated together, the search      *)
(* request being issued before the git-remote candidate is sent.           *)
(***************************************************************************)
C9_TiersVerifiedInOrder ==
    /\ \A i, j \in VerifyIdx :
          i < j => /\ TierRank(wire[i].source) < TierRank(wire[j].source)
                   /\ Failed(i)
    /\ \A i \in SearchIdx :
          \A j \in VerifyIdx : j < i => wire[j].source = "input" /\ Failed(j)
    /\ \A j \in VerifyIdx :
          wire[j].source \in {"git_remote", "search"} =>
             /\ \A i \in SearchIdx : i < j
             /\ (args.projectId = Undef => \E i \in SearchIdx : i < j)

\* The search was requested first, then the git-remote candidate was sent
\* and failed, then the search candidate was sent.
C9_Witness ==
    /\ Len(wire) >= 3
    /\ wire[1].kind = "search"
    /\ wire[2].kind = "verify" /\ wire[2].source = "git_remote" /\ Failed(2)
    /\ wire[3].kind = "verify" /\ wire[3].source = "search"

(***************************************************************************)
(* C10: the merge-request endpoint is requested only after the resolution  *)
(* returned success, with the resolved normalizedProjectId as its {id};    *)
(* when the resolution fails the endpoint is never called and the          *)
(* resolution's structured error is returned.                              *)
(***************************************************************************)
C10_MergeRequestAfterResolution ==
    /\ \A i \in MrIdx :
          /\ resolution.outcome = "success"
          /\ wire[i].id = resolution.normalizedProjectId
          /\ i = Len(wire)
          /\ \E j \in VerifyIdx :
                j < i /\ Verified(j) /\ wire[j].id = wire[i].id
    /\ resolution.outcome = "failure" =>
          /\ MrIdx = {}
          /\ pc = "done"
          /\ response.kind = "resolution_error"
          /\ response.success = FALSE
          /\ response.details.reason = resolution.reason
          /\ Len(response.details.attempts) = Len(resolution.attempts)
    /\ resolution.outcome \in {"pending", "thrown"} => MrIdx = {}

\* A merge request was created in a project resolved from the git remote,
\* whose normalized identifier differs from its raw path.
C10_Witness ==
    /\ pc = "done"
    /\ tool = "create_merge_request"
    /\ response.kind = "mr_ok"
    /\ resolution.source = "git_remote"
    /\ resolution.rawProjectId # resolution.normalizedProjectId
    /\ \E i \in MrIdx : wire[i].id = resolution.normalizedProjectId

(***************************************************************************)
(* C11: create_merge_request with a source branch that is absent, empty or *)
(* whitespace-only returns success:false ('Missing source branch') without *)
(* any HTTP call (no project verification, no search, no POST) and without *)
(* inspecting git remotes.                                                 *)
(***************************************************************************)
C11_MissingSourceBranchNoCalls ==
    (/\ tool = "create_merge_request"
     /\ (args.sourceBranch = Undef \/ IsBlank(args.sourceBranch)))
    => /\ pc = "done"
       /\ response.success = FALSE
       /\ response.error = "Missing source branch"
       /\ wire = <<>>
       /\ gitCalls = <<>>
       /\ resolution = NoResolution

\* A whitespace-only source branch was refused although a project
\* identifier was given.
C11_Witness ==
    /\ tool = "create_merge_request"
    /\ args.sourceBranch = <<" ">>
    /\ args.projectId = Str_gp
    /\ response.error = "Missing source branch"
    /\ wire = <<>>
    /\ gitCalls = <<>>

(***************************************************************************)
(* C12: after a successful resolution, an HTTP error from the              *)
(* merge-request endpoint is never left as a raw exception:                *)
(* get_merge_request returns success:false carrying the HTTP status and,   *)
(* for 401, 403 and 404, the status-specific troubleshooting list;         *)
(* create_merge_request does the same for 400, 401, 403, 404 and 409,      *)
(* together with the details of the attempted request.                     *)
(***************************************************************************)
C12_MergeRequestErrorClassified ==
    \A i \in MrIdx :
        wire[i].outcome.kind = "http"
        => /\ response.kind # "thrown"
           /\ response.success = FALSE
           /\ response.httpStatus = wire[i].outcome.status
           /\ response.requestDetails.endpoint = wire[i].id
           /\ (\/ /\ tool = "get_merge_request"
                  /\ wire[i].outcome.status \in {401, 403, 404}
               \/ /\ tool = "create_merge_request"
                  /\ wire[i].outcome.status \in {400, 401, 403, 404, 409})
              => response.troubleshooting # <<>>

(***************************************************************************)
(* Vocabulary of the ApiClient properties                                  *)
(***************************************************************************)
\* The failures the retry policy is documented to retry: no HTTP status
\* (network error), status >= 500, 408 or 429.
RetryableFailure(out) ==
    \/ out.kind = "net"
    \/ out.kind = "raw" /\ out.code = "ECONNRESET"
    \/ out.kind = "http" /\ (out.status >= 500 \/ out.status \in {408, 429})

\* A 4xx answer other than 408 and 429.
ClientErrorAnswer(out) ==
    /\ out.kind = "http"
    /\ out.status >= 400 /\ out.status <= 499
    /\ out.status \notin {408, 429}

\* A 403 whose x-ratelimit-reset lies ahead, less than one hour away.
RateLimitedAnswer(out) ==
    /\ out.kind = "http"
    /\ out.status = 403
    /\ out.reset # NoHeader
    /\ out.reset[1] > 0 /\ out.reset[1] < 3600

BackoffAfter(i) ==
    \E k \in DOMAIN sleepLog :
        sleepLog[k].kind = "backoff" /\ sleepLog[k].after = i

(***************************************************************************)
(* C13: ApiClient.request retries a failed attempt when the failure is a   *)
(* network error (no HTTP status) or has status >= 500, 408 or 429,        *)
(* sleeping a backoff delay between attempts, until an attempt succeeds or *)
(* maxRetries attempts have been made; it then throws the last error.      *)
(***************************************************************************)
C13_RetryableFailuresAreRetried ==
    apiEntry = "request"
    => /\ \A i \in DOMAIN axiosLog :
              (RetryableFailure(axiosLog[i]) /\ i < maxRetries)
              => BackoffAfter(i)
       /\ (apiPc = "thrown" /\ axiosLog # <<>>)
          => \/ Len(axiosLog) = maxRetries
             \/ ~RetryableFailure(axiosLog[Len(axiosLog)])

(***************************************************************************)
(* C14: for a response with a 4xx status other than 408 and 429,           *)
(* ApiClient.request performs exactly one HTTP attempt and propagates the  *)
(* error immediately, without sleeping and without a second attempt,       *)
(* whatever maxRetries >= 1 is configured.                                 *)
(***************************************************************************)
C14_ClientErrorsNotRetried ==
    (/\ apiEntry = "request"
     /\ axiosLog # <<>>
     /\ ClientErrorAnswer(axiosLog[1]))
    => /\ Len(axiosLog) = 1
       /\ sleepLog = <<>>
       /\ apiPc = "thrown"
       /\ lastError.status = axiosLog[1].status

\* With three attempts allowed, a 404 was thrown after the only attempt.
C14_Witness ==
    /\ apiEntry = "request"
    /\ maxRetries = 3
    /\ apiPc = "thrown"
    /\ Len(axiosLog) = 1
    /\ axiosLog[1].kind = "http"
    /\ axiosLog[1].status = 404
    /\ sleepLog = <<>>

(***************************************************************************)
(* C15: ApiClient.requestWithRateLimit, when the wrapped request fails     *)
(* with HTTP 403 carrying an x-ratelimit-reset header whose reset time     *)
(* lies in the future and less than one hour away, sleeps until the reset  *)
(* and then issues the request once more; in every other failure case it   *)
(* rethrows the error without waiting.                                     *)
(***************************************************************************)
C15_RateLimitWaitsThenRetriesOnce ==
    apiEntry = "requestWithRateLimit"
    => /\ (apiPc = "thrown" /\ requestCall = 1 /\ axiosLog # <<>>)
          => ~RateLimitedAnswer(axiosLog[Len(axiosLog)])
       /\ \A k \in DOMAIN sleepLog :
              sleepLog[k].kind = "ratelimit"
              => RateLimitedAnswer(axiosLog[sleepLog[k].after])
       /\ requestCall <= 2

(***************************************************************************)
(* C16: executeGitCommand leaves the process working directory equal to    *)
(* its value at entry on every exit path: normal return, a git command     *)
(* that fails, an unknown command name, and a failing chdir into the       *)
(* requested directory.                                                    *)
(***************************************************************************)
C16_WorkingDirectoryRestored ==
    /\ \A i \in DOMAIN gitCalls : gitCalls[i].left = gitCalls[i].originalCwd
    /\ gitCalls # <<>> => cwd = gitCalls[Len(gitCalls)].left

\* Two calls: a git command that failed inside another directory, and a
\* chdir into a directory that does not exist.
C16_Witness ==
    /\ Len(gitCalls) = 2
    /\ gitCalls[1].command = "get_project_info"
    /\ gitCalls[1].entered # gitCalls[1].originalCwd
    /\ gitCalls[1].threw
    /\ gitCalls[2].workingDirectory = MissingDir
    /\ gitCalls[2].threw
    /\ cwd = gitCalls[1].originalCwd

(***************************************************************************)
(* Vocabulary of the ranking property                                      *)
(***************************************************************************)
LastSegment(identifier) == Segments(identifier)[Len(Segments(identifier))]

\* The project the rank rule picks when "matches" is equality of strings.
ExactRankPick(identifier, projects) ==
    LET byFullPath == FindIndex([i \in DOMAIN projects |->
                          projects[i].path_with_namespace = identifier])
        byPath == FindIndex([i \in DOMAIN projects |->
                      projects[i].path = LastSegment(identifier)])
        byName == FindIndex([i \in DOMAIN projects |->
                      projects[i].name = LastSegment(identifier)])
    IN  IF byFullPath # 0 THEN byFullPath
        ELSE IF byPath # 0 THEN byPath
        ELSE IF byName # 0 THEN byName
        ELSE 1

\* The project the rank rule picks when letter case is ignored.
CaselessRankPick(identifier, projects) ==
    LET byFullPath == FindIndex([i \in DOMAIN projects |->
                          toLowerCase(projects[i].path_with_namespace)
                              = toLowerCase(identifier)])
        byPath == FindIndex([i \in DOMAIN projects |->
                      toLowerCase(projects[i].path)
                          = toLowerCase(LastSegment(identifier))])
        byName == FindIndex([i \in DOMAIN projects |->
                      toLowerCase(projects[i].name)
                          = toLowerCase(LastSegment(identifier))])
    IN  IF byFullPath # 0 THEN byFullPath
        ELSE IF byPath # 0 THEN byPath
        ELSE IF byName # 0 THEN byName
        ELSE 1

(***************************************************************************)
(* C17, as claimed: the search fallback picks among the returned projects  *)
(* by rank: a project whose path_with_namespace exactly matches the        *)
(* identifier, else one whose path exactly matches the last path segment,  *)
(* else one whose name exactly matches it, else the first result; the      *)
(* position of a match in the result list does not matter.                 *)
(***************************************************************************)
C17_SearchRankedByExactMatch ==
    (/\ fn = "getProjectCandidateFromSearch"
     /\ fnResults # <<>>
     /\ fnArg.projects # <<>>)
    => LET picked == fnArg.projects[ExactRankPick(fnArg.projectIdentifier,
                                                  fnArg.projects)]
       IN  picked.path_with_namespace # Undef
           => fnResults[1].rawProjectId = picked.path_with_namespace

(***************************************************************************)
(* C17, amended: the rank rule holds with every comparison made ignoring   *)
(* letter case (full path, then path, then name against the last segment,  *)
(* else the first result; within a rank the earliest project of the list); *)
(* the picked project becomes the search candidate, and when it has no     *)
(* path_with_namespace there is no search candidate.                       *)
(***************************************************************************)
C17_SearchRankedIgnoringCase ==
    (/\ fn = "getProjectCandidateFromSearch"
     /\ fnResults # <<>>)
    => IF fnArg.projects = <<>> THEN fnResults[1] = NoCandidate
       ELSE LET picked ==
                    fnArg.projects[CaselessRankPick(fnArg.projectIdentifier,
                                                    fnArg.projects)]
            IN  IF picked.path_with_namespace = Undef
                THEN fnResults[1] = NoCandidate
                ELSE fnResults[1] =
                         Candidate(picked.path_with_namespace,
                                   encodeURIComponent(
                                       picked.path_with_namespace),
                                   "search")

\* The results [g/o, g/t with path t] and the identifier h/t select g/t,
\* which is not first in the list.
C17_Witness ==
    /\ fn = "getProjectCandidateFromSearch"
    /\ fnArg.projectIdentifier = Str_ht
    /\ Len(fnArg.projects) = 2
    /\ fnArg.projects[1].path_with_namespace = <<"g", "/", "o">>
    /\ fnArg.projects[2].path_with_namespace = Str_gt
    /\ fnResults # <<>>
    /\ fnResults[1].rawProjectId = Str_gt
    /\ fnResults[1].source = "search"

(***************************************************************************)
(* C18: normalizeProjectId is idempotent: for every identifier x with a    *)
(* non-null normalization, normalizeProjectId(normalizeProjectId(x)) =     *)
(* normalizeProjectId(x); a path is percent-encoded exactly once, never    *)
(* twice.                                                                  *)
(***************************************************************************)
C18_NormalizationIdempotent ==
    (fn = "normalizeProjectId" /\ Len(fnResults) = 2)
    => fnResults[2] = fnResults[1]

\* The path g/g was encoded to g%2Fg and normalized once more.
C18_Witness ==
    /\ fn = "normalizeProjectId"
    /\ fnArg = <<"g", "/", "g">>
    /\ fnResults = << <<"g", "%", "2", "F", "g">>,
                      <<"g", "%", "2", "F", "g">> >>

(***************************************************************************)
(* Vocabulary of the rule table of normalizeProjectId                      *)
(***************************************************************************)
AllDigits(str) == str # <<>> /\ \A i \in DOMAIN str : IsDigit(str[i])

\* The segments joined by %2F.
RECURSIVE JoinEncoded(_)
JoinEncoded(parts) ==
    IF Len(parts) = 1 THEN parts[1]
    ELSE parts[1] \o <<"%", "2", "F">> \o JoinEncoded(Tail(parts))

\* The rule table applied to the string str.
RuleTable(str) ==
    IF IsBlank(str) THEN Null
    ELSE IF AllDigits(str) THEN str
    ELSE IF Includes(str, "%") THEN str
    ELSE IF MatchesProjectPath(str) THEN JoinEncoded(SplitSlash(str))
    ELSE encodeURIComponent(str)

(***************************************************************************)
(* C19, as claimed: normalizeProjectId follows the rule table: a string of *)
(* digits only is returned unchanged; a string containing '%' is returned  *)
(* as-is; a segment(/segment)+ path is percent-encoded with every '/'      *)
(* becoming %2F; any other non-empty string is percent-encoded; an empty   *)
(* or whitespace-only string is invalid (no normalized form).              *)
(***************************************************************************)
C19_RuleTableOnInput ==
    (fn = "normalizeProjectId" /\ fnArg # Undef /\ fnResults # <<>>)
    => fnResults[1] = RuleTable(fnArg)

(***************************************************************************)
(* C19, amended: the identifier is first trimmed of surrounding            *)
(* whitespace and the rule table applies to the trimmed string: digits     *)
(* only, or containing '%': the trimmed string itself; a                   *)
(* segment(/segment)+ path: its segments joined by %2F; any other          *)
(* non-empty string: percent-encoded; empty after trimming: invalid.       *)
(***************************************************************************)
C19_RuleTableOnTrimmedInput ==
    (fn = "normalizeProjectId" /\ fnArg # Undef /\ fnResults # <<>>)
    => fnResults[1] = RuleTable(Trim(fnArg))

\* A padded path was trimmed and encoded.
C19_Witness ==
    /\ fn = "normalizeProjectId"
    /\ fnArg = Str_padded_path
    /\ fnResults # <<>>
    /\ fnResults[1] = <<"g", "%", "2", "F", "g">>

(***************************************************************************)
(* Vocabulary of the title property                                        *)
(***************************************************************************)
IsAlphanumeric(c) == IsDigit(c) \/ IsUpper(c) \/ IsLower(c)

\* rest with '-' and '_' replaced by spaces and the first character of
\* each word in upper case.
WordsCapitalised(rest) ==
    [i \in DOMAIN rest |->
        IF rest[i] \in {"-", "_"} THEN " "
        ELSE IF i = 1 \/ ~IsAlphanumeric(rest[i - 1])
        THEN UpperChar(rest[i])
        ELSE rest[i]]

RestAfter(branch, prefix) == SubSeq(branch, Len(prefix) + 1, Len(branch))

KnownPrefixes ==
    {Str_feature, Str_feat, Str_bugfix, Str_hotfix, Str_docs, Str_refactor}

Unprefixed(branch) == \A prefix \in KnownPrefixes : ~StartsWith(branch, prefix)

\* str with '-' and '_' replaced by spaces and an upper-case initial for
\* the string and for each word that follows a blank; a character after
\* any other mark, such as '/', is kept.
CapitalisedAfterBlanks(str) ==
    [i \in DOMAIN str |->
        IF str[i] \in {"-", "_"} THEN " "
        ELSE IF i = 1 \/ str[i - 1] \in {"-", "_", " "}
        THEN UpperChar(str[i])
        ELSE str[i]]

Title_Chore_cleanup == <<"f", "e", "a", "t", ":", " ", "C", "h", "o", "r", "e", "/", "c", "l", "e", "a", "n", "u", "p">>
Title_Chore_Cleanup == <<"f", "e", "a", "t", ":", " ", "C", "h", "o", "r", "e", "/", "C", "l", "e", "a", "n", "u", "p">>

(***************************************************************************)
(* C21 as stated: a source branch without a recognised prefix yields       *)
(* "feat: " followed by the whole branch with '-'/'_' replaced by spaces   *)
(* and title-cased so that the part after '/' keeps its lower-case         *)
(* initial; chore/cleanup yields exactly "feat: Chore/cleanup".            *)
(***************************************************************************)
C21_UnprefixedTitleKeepsCaseAfterSlash ==
    (fn = "generateMRTitle" /\ fnResults # <<>> /\ Unprefixed(fnArg))
    => /\ fnResults[1] = Title_feat \o CapitalisedAfterBlanks(fnArg)
       /\ fnArg = Str_chore_cleanup => fnResults[1] = Title_Chore_cleanup

(***************************************************************************)
(* C21 as amended: a source branch without a recognised prefix yields      *)
(* "feat: " followed by the whole branch with '-'/'_' replaced by spaces   *)
(* and every word given an upper-case initial, a word being a run of       *)
(* letters and digits, so that the part after '/' is capitalised too;      *)
(* chore/cleanup yields exactly "feat: Chore/Cleanup".                     *)
(***************************************************************************)
C21_UnprefixedTitleCapitalisesEveryWord ==
    (fn = "generateMRTitle" /\ fnResults # <<>> /\ Unprefixed(fnArg))
    => /\ fnResults[1] = Title_feat \o WordsCapitalised(fnArg)
       /\ fnArg = Str_chore_cleanup => fnResults[1] = Title_Chore_Cleanup

\* chore/cleanup was given its title.
C21_Witness ==
    /\ fn = "generateMRTitle"
    /\ fnArg = Str_chore_cleanup
    /\ Unprefixed(fnArg)
    /\ fnResults = <<Title_Chore_Cleanup>>

(***************************************************************************)
(* C22: the generated title is title-cased for every recognised prefix:    *)
(* the prefix is replaced by its type and the rest has '-'/'_' replaced    *)
(* by spaces and each word capitalised; bugfix/fix-password-reset yields   *)
(* "fix: Fix Password Reset", docs/update-readme yields "docs: Update      *)
(* Readme" and feature/user-login yields "feat: User Login".               *)
(***************************************************************************)
C22_TitleCasedForEveryPrefix ==
    (fn = "generateMRTitle" /\ fnResults # <<>>)
    => /\ \A prefix \in {Str_bugfix, Str_hotfix} :
              StartsWith(fnArg, prefix)
              => fnResults[1] =
                     Title_fix \o WordsCapitalised(RestAfter(fnArg, prefix))
       /\ StartsWith(fnArg, Str_docs)
          => fnResults[1] =
                 Title_docs \o WordsCapitalised(RestAfter(fnArg, Str_docs))
       /\ StartsWith(fnArg, Str_refactor)
          => fnResults[1] =
                 Title_refactor
                 \o WordsCapitalised(RestAfter(fnArg, Str_refactor))
       /\ \A prefix \in {Str_feature, Str_feat} :
              StartsWith(fnArg, prefix)
              => fnResults[1] =
                     Title_feat \o WordsCapitalised(RestAfter(fnArg, prefix))
       /\ fnArg = Str_bugfix \o Str_fix_password_reset
          => fnResults[1] = <<"f", "i", "x", ":", " ", "F", "i", "x", " ", "P", "a", "s", "s", "w", "o", "r", "d", " ", "R", "e", "s", "e", "t">>
       /\ fnArg = Str_docs \o Str_update_readme
          => fnResults[1] = <<"d", "o", "c", "s", ":", " ", "U", "p", "d", "a", "t", "e", " ", "R", "e", "a", "d", "m", "e">>
       /\ fnArg = Str_feature \o Str_user_login
          => fnResults[1] = <<"f", "e", "a", "t", ":", " ", "U", "s", "e", "r", " ", "L", "o", "g", "i", "n">>

(***************************************************************************)
(* Vocabulary of the properties of the tool arguments                      *)
(***************************************************************************)
\* The text of a value the caller wrote as a string or as a number.
Written(value) ==
    CASE value = Number(7) -> <<"7">>
      [] value = Number(42) -> <<"4", "2">>
      [] OTHER -> value

\* The URLs among the references, and those that name a merge request.
UrlReferences ==
    {Url_mr, Url_mr_plain, Url_mr_diffs, Url_project, Url_project_git,
     Url_ssh_git, Url_ssh}

MergeRequestReferences == {Url_mr, Url_mr_plain, Url_mr_diffs}

(***************************************************************************)
(* C23: every identity-bearing tool takes the project identifier under     *)
(* each of projectId, project_id, project, projectPath, project_path,      *)
(* repository, repository_path and the merge-request identifier under      *)
(* each of pullRequestNumber, pull_request_number, mergeRequestIid,        *)
(* merge_request_iid, mergeRequestId, merge_request_id, iid: whichever     *)
(* name carries the value, the tool works on that value (a tool that       *)
(* creates a merge request takes no merge-request identifier).             *)
(***************************************************************************)
C23_EveryAliasAccepted ==
    (fn = "IdentityArguments" /\ fnResults # <<>>)
    => /\ \A pk \in ProjectIdNames \cap DOMAIN fnArg.args :
              fnArg.args[pk] \in ProjectIdValues
              => fnResults[1].projectId = Written(fnArg.args[pk])
       /\ \A ik \in MergeRequestIdNames \cap DOMAIN fnArg.args :
              fnArg.tool # "create_merge_request"
              => fnResults[1].mergeRequestIid = Written(fnArg.args[ik])

(***************************************************************************)
(* C24: when a field of the arguments of a tool that reads merge           *)
(* requests, the project identifier field itself included, holds an SSH    *)
(* or HTTPS URL of a project or merge request, the project identifier      *)
(* handed to resolution is the bare project path of the URL and the        *)
(* merge-request IID is the one of the URL, if it has one.                 *)
(***************************************************************************)
C24_UrlFieldsYieldPathAndIid ==
    (/\ fn = "IdentityArguments"
     /\ fnResults # <<>>
     /\ fnArg.tool \in {"fetch_pull_request", "get_merge_request"})
    => \A k \in (UrlNames \cup {"projectId"}) \cap DOMAIN fnArg.args :
           fnArg.args[k] \in UrlReferences
           => /\ fnResults[1].projectId = Str_gp
              /\ fnArg.args[k] \in MergeRequestReferences
                 => fnResults[1].mergeRequestIid = <<"4">>

(***************************************************************************)
(* Vocabulary of the property of the POST body                             *)
(***************************************************************************)
\* The flag values of the arguments that stand for true.
TrueFlags == {Boolean(TRUE), Number(1), <<"Y", "e", "s">>}

\* A flag of the body: true if the argument stands for true, otherwise
\* not there.
FlagOfBody(argument) ==
    IF argument \in TrueFlags THEN Boolean(TRUE) ELSE Undef

(***************************************************************************)
(* C25: the body POSTed by create_merge_request always holds               *)
(* source_branch (the source branch without the blanks around it),         *)
(* target_branch (the one given, "main" if none is given) and a title;     *)
(* description, assignee_id and reviewer_ids are not in it when the        *)
(* arguments do not supply them; remove_source_branch and squash are in    *)
(* it, with the value true, exactly when deleteSourceBranch and squash     *)
(* stand for true.                                                         *)
(***************************************************************************)
C25_BodyHoldsOnlyWhatWasProvided ==
    (/\ fn = "requestData"
     /\ fnResults # <<>>
     /\ fnArg.sourceBranch # <<" ">>)
    => LET body == fnResults[1]
       IN  /\ fnArg.sourceBranch = Str_padded_branch
              => body.source_branch = <<"f", "/", "x">>
           /\ fnArg.sourceBranch = Str_bugfix \o <<"a">>
              => body.source_branch = fnArg.sourceBranch
           /\ body.target_branch =
                  (IF fnArg.target_branch = Undef THEN Str_main
                   ELSE fnArg.target_branch)
           /\ body.title # Undef
           /\ body.title # <<>>
           /\ fnArg.title = <<"T">> => body.title = <<"T">>
           /\ fnArg.description = Undef => body.description = Undef
           /\ fnArg.assignee_id = Undef => body.assignee_id = Undef
           /\ fnArg.reviewers = Undef => body.reviewer_ids = Undef
           /\ body.remove_source_branch =
                  FlagOfBody(fnArg.deleteSourceBranch)
           /\ body.squash = FlagOfBody(fnArg.squash)

\* A body was built for the source branch " f/x " with deleteSourceBranch
\* "Yes", squash true, the assignee "12" and the reviewers "3, 4", and
\* with no title, description or target branch.
C25_Witness ==
    /\ fn = "requestData"
    /\ fnArg = [sourceBranch |-> Str_padded_branch, target_branch |-> Undef,
                title |-> Undef, description |-> Undef,
                assignee_id |-> <<"1", "2">>,
                reviewers |-> <<"3", ",", " ", "4">>,
                deleteSourceBranch |-> <<"Y", "e", "s">>,
                squash |-> Boolean(TRUE)]
    /\ fnResults =
           <<[source_branch |-> <<"f", "/", "x">>,
              target_branch |-> Str_main,
              title |-> <<"f", "e", "a", "t", ":", " ", "F", "/", "X">>,
              description |-> Undef, assignee_id |-> Number(12),
              reviewer_ids |-> Array(<<Number(3), Number(4)>>),
              remove_source_branch |-> Boolean(TRUE),
              squash |-> Boolean(TRUE)]>>

(***************************************************************************)
(* Vocabulary of the attempts property                                     *)
(***************************************************************************)
\* The verification requests sent so far, and those answered so far, in
\* the order they were sent.
VerificationsSent == SelectSeq(wire, LAMBDA req : req.kind = "verify")

VerificationsAnswered ==
    SelectSeq(wire, LAMBDA req : req.kind = "verify" /\ req.outcome # Pending)

\* attempts holds one record per request of reqs, in order, for the
\* candidate that was sent.
RecordsMatch(reqs) ==
    /\ Len(attempts) = Len(reqs)
    /\ \A k \in DOMAIN attempts :
          /\ attempts[k].candidate.normalizedProjectId = reqs[k].id
          /\ attempts[k].candidate.source = reqs[k].source

(***************************************************************************)
(* C26 as stated: at every point of a resolution, attempts holds exactly   *)
(* one record per verification request sent to the API so far, in the      *)
(* order the requests were sent, each for the candidate that was sent;     *)
(* candidates dropped before sending have no record.                       *)
(***************************************************************************)
C26_OneRecordPerRequestSent == RecordsMatch(VerificationsSent)

(***************************************************************************)
(* C26 as amended: at every point of a resolution, attempts holds exactly  *)
(* one record per verification request answered so far, in the order the   *)
(* requests were sent, each for the candidate that was sent; the one       *)
(* request that may be in flight has no record until its answer arrives,   *)
(* and candidates dropped before sending have no record.                   *)
(***************************************************************************)
C26_OneRecordPerRequestAnswered ==
    /\ RecordsMatch(VerificationsAnswered)
    /\ Len(VerificationsSent) - Len(VerificationsAnswered) =
           (IF pc = "verify_wait" THEN 1 ELSE 0)
    /\ pc = "verify_wait" => wire[Len(wire)].kind = "verify"

\* The second verification request is in flight: the first one has its
\* record, the second one none yet.
C26_Witness ==
    /\ pc = "verify_wait"
    /\ Len(VerificationsSent) = 2
    /\ Len(attempts) = 1
    /\ attempts[1].candidate.normalizedProjectId = VerificationsSent[1].id

(***************************************************************************)
(* C27: a transport-level failure (network error or timeout, no HTTP       *)
(* status) while verifying a candidate is fatal to the resolution: no      *)
(* candidate is verified after it and no project search, by which          *)
(* fallback candidates are generated, is sent after it.                    *)
(***************************************************************************)
C27_TransportFailureIsFatal ==
    \A i \in VerifyIdx :
        wire[i].outcome.kind = "net"
        => \A j \in DOMAIN wire :
               j > i => wire[j].kind \notin {"verify", "search"}

(***************************************************************************)
(* C28: every resolution terminates: whatever the arguments, the git       *)
(* remote and the answers of the API, the invocation reaches its final     *)
(* outcome, having sent at most three project-verification requests, no    *)
(* two for the same source (input, git_remote, search), and at most one    *)
(* project-search request.                                                 *)
(***************************************************************************)
C28_ResolutionTerminates ==
    /\ [](/\ Cardinality(VerifyIdx) <= 3
          /\ \A i, j \in VerifyIdx :
                i # j => wire[i].source # wire[j].source
          /\ Cardinality(SearchIdx) <= 1)
    /\ <>(pc = "done")

\* A resolution has ended after one project search and the verification
\* of the candidates of the git remote and of the search.
C28_Witness ==
    /\ pc = "done"
    /\ resolution.outcome # "pending"
    /\ Cardinality(SearchIdx) = 1
    /\ {wire[i].source : i \in VerifyIdx} = {"git_remote", "search"}

(***************************************************************************)
(* Vocabulary of the isolation property                                    *)
(***************************************************************************)
\* The requests of a wire that have been answered.
AnsweredRequests(w) == SelectSeq(w, LAMBDA req : req.outcome # Pending)

\* The invocation run alone has been called and has been given as many
\* answers as the recorded one had when it was set aside.
CaughtUp ==
    /\ mode = "replay"
    /\ tool # "none"
    /\ Len(AnsweredRequests(wire)) = Len(AnsweredRequests(recorded.wire))

AtAwait(inv) == inv.pc \in {"search_wait", "verify_wait", "mr_wait"}

(***************************************************************************)
(* C29: tool invocations are isolated.  When two invocations interleave at *)
(* their awaits, the queue, the seen-set, the attempts list and the        *)
(* resolution result of each are those of the same invocation run alone    *)
(* against the same API responses, and it has sent the same requests; the  *)
(* process state they share, the working directory, is at every await what *)
(* it was when the server started.                                         *)
(***************************************************************************)
C29_InvocationsIsolated ==
    /\ cwd = StartDir
    /\ CaughtUp =>
          /\ queue = recorded.queue
          /\ seenNormalized = recorded.seenNormalized
          /\ attempts = recorded.attempts
          /\ resolution = recorded.resolution
          /\ wire = recorded.wire

\* Both invocations were at an await with a request answered, neither was
\* given a project, and the second one inspected another working directory:
\* the first one, run alone, has caught up with its two answers.
C29_Witness ==
    /\ CaughtUp
    /\ AtAwait(recorded)
    /\ AtAwait(other)
    /\ Len(AnsweredRequests(recorded.wire)) = 2
    /\ AnsweredRequests(other.wire) # <<>>
    /\ recorded.args.projectId = Undef
    /\ other.args.projectId = Undef
    /\ getWorkingDirectoryArg(recorded.args) = NoDirectory
    /\ getWorkingDirectoryArg(other.args) = "/work/repo"
    /\ recorded.attempts # <<>>
    /\ recorded.attempts[1].candidate.source = "git_remote"

(***************************************************************************)
(* C30: the server limits API concurrency.  At any moment at most 5 API    *)
(* requests are in flight, however many tool invocations run at the same   *)
(* time; a further request waits until one of them completes.              *)
(***************************************************************************)
C30_AtMostFiveInFlight == Cardinality(InFlight) <= ConcurrencyLimit

(***************************************************************************)
(* Vocabulary of the transport properties                                  *)
(***************************************************************************)
\* The lines of a byte stream that are terminated by a newline, in order,
\* as the text handed on: decoded, without the carriage return at the end.
RECURSIVE CompleteLines(_)
CompleteLines(bytes) ==
    IF FirstOf(bytes, {"LF"}, 1) > Len(bytes) THEN <<>>
    ELSE <<StripCarriageReturn(
               Utf8Decode(SubSeq(bytes, 1, FirstOf(bytes, {"LF"}, 1) - 1)))>>
             \o CompleteLines(SubSeq(bytes, FirstOf(bytes, {"LF"}, 1) + 1,
                                     Len(bytes)))

\* What follows the last newline of a byte stream.
RECURSIVE TrailingLine(_)
TrailingLine(bytes) ==
    IF FirstOf(bytes, {"LF"}, 1) > Len(bytes) THEN bytes
    ELSE TrailingLine(SubSeq(bytes, FirstOf(bytes, {"LF"}, 1) + 1, Len(bytes)))

\* The complete lines that are not empty and not white space only.
InkedLines(bytes) ==
    SelectSeq(CompleteLines(bytes), LAMBDA line : ~IsBlankLine(line))

\* The bytes received so far, whatever the chunks were.
RECURSIVE Flatten(_)
Flatten(chunks) ==
    IF chunks = <<>> THEN <<>> ELSE Head(chunks) \o Flatten(Tail(chunks))

Received == Flatten(delivered)

\* No callback has closed the transport.
NotClosedByCallback == closeAt = 0 \/ Len(callbacks) < closeAt

(***************************************************************************)
(* C31: the transport skips empty and white-space-only lines.  Such a line *)
(* triggers neither onmessage nor onerror, and the lines before and after  *)
(* it are delivered unchanged and in order: the callbacks made are those   *)
(* of the other complete lines, one each, in the order of the lines.       *)
(***************************************************************************)
C31_BlankLinesSkipped ==
    /\ \A k \in DOMAIN callbacks : ~IsBlankLine(callbacks[k].value)
    /\ NotClosedByCallback =>
          /\ Len(callbacks) = Len(InkedLines(Received))
          /\ \A k \in DOMAIN callbacks :
                callbacks[k] = ParseLine(InkedLines(Received)[k])

\* A message, a line of a blank and a carriage return, an empty line, and
\* a second message have arrived, the first chunk ending inside the blank
\* line: two callbacks, both onmessage.
C31_Witness ==
    /\ Received = Stream_keep_alive
    /\ Len(delivered) = 2
    /\ Len(delivered[1]) = 3
    /\ Len(CompleteLines(Received)) = 4
    /\ Len(callbacks) = 2
    /\ \A k \in DOMAIN callbacks :
          callbacks[k].callback = "onmessage" /\ callbacks[k].value = <<"m">>

(***************************************************************************)
(* C37: what the transport delivers depends on the bytes received only,    *)
(* not on the chunks they arrived in.  After any chunks the callbacks made *)
(* are those of the same bytes arriving as one chunk; they follow the      *)
(* order of the lines, every complete line is handled once (a callback, or *)
(* skipped as blank), and what follows the last newline is held in the     *)
(* buffer and not delivered.                                               *)
(***************************************************************************)
C37_ChunkingIndependent ==
    /\ callbacks = processReadBuffer(Received, <<>>, closeAt).callbacks
    /\ NotClosedByCallback =>
          Len(callbacks) + Len(SelectSeq(CompleteLines(Received), IsBlankLine))
              = Len(CompleteLines(Received))
    /\ transport = "started" /\ delivered # <<>> =>
          buffer = TrailingLine(Received)

\* The first chunk ended between the two bytes of a character; the line
\* with that character has been handed to onerror once, with the character
\* whole, and the message that is not terminated yet is held.
C37_Witness ==
    /\ delivered = <<<<"x", "C3">>, <<"A9", "LF", "m">>>>
    /\ callbacks = <<[callback |-> "onerror", error |-> "SyntaxError",
                      value |-> <<"x", "U+00E9">>]>>
    /\ buffer = <<"m">>
    /\ transport = "started"

(***************************************************************************)
(* C38: a line that is no valid JSON or no valid JSON-RPC message causes   *)
(* one onerror callback and no onmessage callback and does not stop the    *)
(* transport: every later complete line is still processed, and            *)
(* processReadBuffer never throws, also when a callback closes the         *)
(* transport while complete lines remain buffered.                         *)
(***************************************************************************)
C38_BadLineDoesNotStopTransport ==
    /\ NotClosedByCallback =>
          /\ Len(callbacks) = Len(InkedLines(Received))
          /\ \A k \in DOMAIN callbacks :
                JsonText(InkedLines(Received)[k]) # <<"m">> =>
                    callbacks[k].callback = "onerror"
    /\ ~thrown

(***************************************************************************)
(* C32: the maintainability index the code analyzer reports is within      *)
(* 0..100 inclusive, for every code text and every issue count.            *)
(***************************************************************************)
C32_IndexWithinRange ==
    fn = "calculateMaintainabilityIndex" /\ fnResults # <<>> =>
        fnResults[1] \in 0..100

(***************************************************************************)
(* C33: a failed project-search request (an HTTP error status or a network *)
(* error) never aborts the resolution and never produces an attempt        *)
(* record: the search tier yields no candidate, attempts keeps one record  *)
(* per answered verification, and the resolution goes on with the          *)
(* candidates that remain or ends with its structured failure.             *)
(***************************************************************************)
C33_SearchFailureIsSwallowed ==
    \A i \in SearchIdx :
        Failed(i) =>
           /\ \A j \in VerifyIdx : wire[j].source # "search"
           /\ \A k \in DOMAIN attempts : attempts[k].candidate.source # "search"
           /\ \A k \in DOMAIN queue : queue[k].source # "search"
           /\ RecordsMatch(VerificationsAnswered)
           /\ i = Len(wire) =>
                 /\ pc = "done"
                 /\ resolution.outcome = "failure"
                 /\ resolution.attempts = attempts
           /\ i < Len(wire) =>
                 /\ wire[i + 1].kind = "verify"
                 /\ wire[i + 1].source = "git_remote"

\* The search failed with a network error and the candidate of the git
\* remote was verified after it.
C33_Witness ==
    /\ \E i \in SearchIdx :
          /\ wire[i].outcome.kind = "net"
          /\ i < Len(wire)
          /\ wire[i + 1].kind = "verify"
          /\ Verified(i + 1)
    /\ resolution.outcome = "success"
    /\ resolution.source = "git_remote"

(***************************************************************************)
(* C34: the change of working directory made for git inspection is never   *)
(* visible across an await.  Under every interleaving of two invocations   *)
(* the process is in the directory of server start whenever an invocation  *)
(* is suspended, every git inspection starts from that directory, runs in  *)
(* the directory its own invocation asked for and changes back, so no      *)
(* invocation inspects or observes the directory of another.               *)
(***************************************************************************)
C34_CwdNotVisibleAcrossAwait ==
    /\ (AtAwait(other) \/ pc \in {"search_wait", "verify_wait", "mr_wait"})
          => cwd = StartDir
    /\ \A k \in DOMAIN gitCalls :
          /\ gitCalls[k].originalCwd = StartDir
          /\ gitCalls[k].left = StartDir
          /\ gitCalls[k].entered = gitCalls[k].workingDirectory
          /\ gitCalls[k].workingDirectory # StartDir =>
                gitCalls[k].workingDirectory \in
                    {getWorkingDirectoryArg(args),
                     getWorkingDirectoryArg(other.args),
                     getWorkingDirectoryArg(recorded.args)}

\* Two invocations are interleaved and both are suspended at a request; one
\* had its git inspection in /work/repo, the other in the directory of
\* server start.
C34_Witness ==
    /\ mode = "pair"
    /\ AtAwait(other)
    /\ pc \in {"search_wait", "verify_wait", "mr_wait"}
    /\ Len(gitCalls) = 2
    /\ gitCalls[1].workingDirectory # gitCalls[2].workingDirectory
    /\ \E k \in 1..2 : gitCalls[k].entered = "/work/repo"
    /\ cwd = StartDir

(***************************************************************************)
(* Vocabulary of the context property                                      *)
(***************************************************************************)
\* The strings enhanceGitlabMergeRequestContext looks into, in its order:
\* the project field, the merge-request URL, the project URL.
CandidateStrings(a, context) ==
    SelectSeq(<<context.projectId,
                coerceToString(getArgumentValue(a, MergeRequestUrlKeys)),
                coerceToString(getArgumentValue(a, ProjectUrlKeys))>>,
              LAMBDA value : value \notin {Undef, Null} /\ Trim(value) # <<>>)

\* What the first of the strings that yields the field yields for it, and
\* `otherwise` when none does.
FirstYield(strings, field, otherwise) ==
    LET yielding == {i \in DOMAIN strings :
                        ~Falsy(parseGitlabReferenceString(strings[i])[field])}
    IN  IF yielding = {} THEN otherwise
        ELSE parseGitlabReferenceString(
                 strings[CHOOSE i \in yielding :
                             \A j \in yielding : i <= j])[field]

(***************************************************************************)
(* C35: enhanceGitlabMergeRequestContext never overrides a value that was  *)
(* supplied: a non-empty project or IID of the context is returned as it   *)
(* is, and an empty one is filled from the first of the candidate strings  *)
(* (project field, merge-request URL, project URL) that yields it.         *)
(***************************************************************************)
C35_SuppliedValuesKept ==
    (fn = "enhanceGitlabMergeRequestContext" /\ fnResults # <<>>) =>
        LET context == fnArg.context
            strings == CandidateStrings(fnArg.args, context)
            enhanced == fnResults[1]
        IN  /\ ~Falsy(context.projectId) =>
                   enhanced.projectId = context.projectId
            /\ ~Falsy(context.mergeRequestIid) =>
                   enhanced.mergeRequestIid = context.mergeRequestIid
            /\ Falsy(context.projectId) =>
                   enhanced.projectId =
                       FirstYield(strings, "projectPath",
                                  OrElse(context.projectId, Undef))
            /\ Falsy(context.mergeRequestIid) =>
                   enhanced.mergeRequestIid =
                       FirstYield(strings, "mergeRequestIid",
                                  OrElse(context.mergeRequestIid, Undef))

\* The project a/b and the IID 9 were supplied next to the URL of merge
\* request 5 of c/d and the URL of e/f: both are returned as supplied.
C35_Witness ==
    /\ fn = "enhanceGitlabMergeRequestContext"
    /\ fnArg.context = [projectId |-> <<"a", "/", "b">>,
                        mergeRequestIid |-> <<"9">>]
    /\ fnArg.args = ("mr_url" :> Url_other_mr @@ "repoUrl" :> Url_other_project)
    /\ fnResults = <<[projectId |-> <<"a", "/", "b">>,
                      mergeRequestIid |-> <<"9">>]>>

(***************************************************************************)
(* C36: for every configured maxRetries, zero, a negative count and the    *)
(* NaN of an unparsable --max-retries included, a call of                  *)
(* ApiClient.request issues at least one HTTP attempt and ends with the    *)
(* response of its last attempt or by throwing the Error of its last       *)
(* attempt; it never fails without having sent a request.                  *)
(***************************************************************************)
C36_AtLeastOneAttempt ==
    apiPc \in {"returned", "thrown"} =>
        /\ axiosLog # <<>>
        /\ apiPc = "returned" => axiosLog[Len(axiosLog)].kind = "ok"
        /\ apiPc = "thrown" =>
              /\ lastError # NoError
              /\ lastError = request(axiosLog[Len(axiosLog)]).error

(***************************************************************************)
(* C39: the value of the API token never appears in the response of        *)
(* get_server_config.  Two configurations that differ only in the value of *)
(* a non-empty token give, for the same outcome of the health check, the   *)
(* same payload; of the token it tells only hasToken.                      *)
(***************************************************************************)
C39_TokenNotExposed ==
    (/\ fn = "getServerConfig"
     /\ fnResults # <<>>
     /\ fnArg.config.apiToken # <<>>)
    => LET text == fnResults[1].content[1].text
       IN  /\ \A token \in ApiTokens \ {<<>>} :
                  fnResults[1] =
                      getServerConfig(
                          [fnArg.config EXCEPT !.apiToken = token],
                          fnArg.isHealthy)
           /\ \A i \in DOMAIN text :
                  /\ text[i][1] # "token"
                  /\ text[i][2] # fnArg.config.apiToken
           /\ \E i \in DOMAIN text :
                  text[i] = <<"hasToken", Boolean(TRUE)>>
           /\ Len(fnResults[1].content) = 1

\* get_server_config was answered by a server configured with the token
\* sk1, and the answer says that there is a token.
C39_Witness ==
    /\ fn = "getServerConfig"
    /\ fnArg.config.apiToken = <<"s", "k", "1">>
    /\ fnResults # <<>>
    /\ fnResults[1].content[1].text[2] = <<"hasToken", Boolean(TRUE)>>
    /\ fnResults[1].content[1].text[6] = <<"healthStatus", Str_healthy>>

====
